---------------------------- MODULE Spec2Model ----------------------------
(***************************************************************************)
(* A model of the edge/path geometry layer of v-network-graph 0.4.1:       *)
(*   - src/src/composables/state.ts          (reactive node/edge states)   *)
(*   - src/src/components/marker-head-angle.vue, lines 59-618              *)
(*     (the path component: pathList, _calculatePathPoints,                *)
(*      _detectDirectionsOfPathEdges)                                      *)
(* The module holds several specifications over one set of variables; a    *)
(* specification leaves the variables of the other parts idle.             *)
(***************************************************************************)
EXTENDS Integers, Sequences, FiniteSets, TLC

VARIABLES
  \* ---- the path list (pathList, a computed over props.paths/props.edges)
  paths,        \* props.paths: a sequence of Path records [edges |-> <<ids>>]
  propsEdges,   \* props.edges: edge id -> Edge
  pathList,     \* the value of the computed `pathList`
  plPc,         \* "input" (not yet evaluated) | "done"
  \* ---- direction detection (_detectDirectionsOfPathEdges)
  chain,        \* the EdgeObject sequence handed to the function
  directions,   \* its result (TRUE: forward, FALSE: reverse)
  dirPc,        \* "input" | "done"
  \* ---- the path point engine (calcPathPoints / _calculatePathPoints)
  ptIn,         \* the inputs of one call: path, configuration, scale, hovered nodes
  ptEdgePos,    \* edgePos: the EdgeLine of every edge of the path
  points,       \* the result under construction
  ptI,          \* the loop variable i of the transit loop (1-based)
  overStart,    \* isMarginOverRunStart
  overEnd,      \* isMarginOverRunEnd
  ptPos,        \* pos of the last round of the transit loop (<<>>: none yet)
  ptControl,    \* the arguments of the last calculateBezierCurveControlPoint call
  ptPc,         \* "idle" | "start" | "transit" | "end" | "trim" | "done"
  \* ---- the state layer (provideStates): its inputs ...
  nodes,          \* nodes.value: node id -> Node
  edgeMap,        \* edges.value: edge id -> Edge
  edgeKeys,       \* Object.keys(edges.value): the edge ids in insertion order
  layouts,        \* layouts.nodes: node id -> position
  selectedNodes, selectedEdges, hoveredNodes, hoveredEdges,   \* reactive sets
  edgeType,       \* configs.edge.type
  styleFns,       \* the style attributes of configs are functions of the entity
  scale,          \* scale.value
  \* ---- ... its own records ...
  nodeStates,     \* node id -> node state
  edgeStates,     \* edge id -> edge state
  markers,        \* the marker registry: marker id -> number of references
  \* ---- ... and the scheduler of the reactivity system
  activeCbs,      \* the jobs of the flush under way that have not finished
  pendingCbs,     \* the jobs queued for the next round
  oldValues,      \* the value each watcher saw when it last ran
  \* ---- history
  disposals,      \* edge id -> what happened to the stopWatchHandle of its latest record
  lastOp,         \* the operation that led to this state
  opCount,        \* external operations so far
  \* ---- the geometry of one edge (the first watchEffect of createEdgeState)
  geoIn,          \* what the effect reads: positions, shapes, group entry, ...
  geoType,        \* configs.edge.type
  geoState,       \* the edge state record
  geoSeen,        \* edge type -> the geometry of the last run under that type
  geoCircle,    \* the calls of calculateCircleCenterAndRadiusBy3Points in the last run
  geoPc,          \* "dirty" (the effect is queued) | "clean"
  \* ---- the summarized edge states (createSummarizedEdgeStates)
  sumEdges,       \* the ids of the edges of edges.value
  sumMin,         \* configs.edge.summarize: a group of that many edges is summarized
  summarizedEdgeStates,  \* group id -> summarized state
  sumPrev,        \* summarizedEdgeStates before the last run of the watcher
  sumPending,     \* the watcher of the edge groups is queued
  sumRuns,        \* the runs of the watcher so far
  sumOps,         \* changes of the edge groups so far
  \* ---- the transit points in one node (the body of the transit loop)
  trIn,           \* what the geometry gives: the intersection and the crossings
  trPos,          \* pos
  trPc            \* "input" | "done"

varsPaths == <<paths, propsEdges, pathList, plPc>>
varsDir   == <<chain, directions, dirPc>>
varsPts   == <<ptIn, ptEdgePos, points, ptI, overStart, overEnd, ptPos, ptControl, ptPc>>
varsSt    == <<nodes, edgeMap, edgeKeys, layouts, selectedNodes, selectedEdges,
               hoveredNodes, hoveredEdges, edgeType, styleFns, scale,
               nodeStates, edgeStates, markers, activeCbs, pendingCbs, oldValues,
               disposals, lastOp, opCount>>
varsGeo   == <<geoIn, geoType, geoState, geoSeen, geoCircle, geoPc>>
varsSum   == <<sumEdges, sumMin, summarizedEdgeStates, sumPrev, sumPending, sumRuns, sumOps>>
varsTr    == <<trIn, trPos, trPc>>
vars      == <<paths, propsEdges, pathList, plPc, chain, directions, dirPc,
               ptIn, ptEdgePos, points, ptI, overStart, overEnd, ptPos, ptControl, ptPc,
               nodes, edgeMap, edgeKeys, layouts, selectedNodes, selectedEdges,
               hoveredNodes, hoveredEdges, edgeType, styleFns, scale,
               nodeStates, edgeStates, markers, activeCbs, pendingCbs, oldValues,
               disposals, lastOp, opCount,
               geoIn, geoType, geoState, geoSeen, geoCircle, geoPc,
               sumEdges, sumMin, summarizedEdgeStates, sumPrev, sumPending,
               sumRuns, sumOps, trIn, trPos, trPc>>

-----------------------------------------------------------------------------
\* JavaScript values

\* the value of a missing property: `obj[key]` for a key the object lacks
Undefined == [tag |-> "undefined"]

\* obj[key] on a plain object / reactive record
Lookup(obj, key) == IF key \in DOMAIN obj THEN obj[key] ELSE Undefined

\* Array.prototype.includes on a two element array literal [a, b]
Includes2(a, b, x) == x = a \/ x = b

-----------------------------------------------------------------------------
\* Configuration values (Config.value / Config.values, marker-head-angle.vue
\* 662-675) and the styles of the model's configuration.
\*
\* A style attribute is a literal or a function of the entity.  A callable
\* attribute is [fn |-> TRUE, prop |-> p, plus |-> k]: the function
\* `t => t[p] + k`; a literal is [fn |-> FALSE, v |-> value].

\* the exception thrown by `t => t[p] + k` for an undefined t
JsTypeError == [tag |-> "TypeError"]

Lit(v)      == [fn |-> FALSE, v |-> v]
Fn(p, k)    == [fn |-> TRUE, prop |-> p, plus |-> k]

\* Config.value(value, target) throws
ConfigValueThrows(value, target) == value.fn /\ target = Undefined

\* Config.value(value, target), where it does not throw
ConfigValue(value, target) ==
  IF value.fn
  THEN IF value.plus = 0 THEN target[value.prop] ELSE target[value.prop] + value.plus
  ELSE value.v

\* Config.values(value, target) throws
ConfigValuesThrows(value, target) ==
  \E k \in DOMAIN value : ConfigValueThrows(value[k], target)

\* Config.values(value, target): every attribute resolved against target
ConfigValues(value, target) ==
  [k \in DOMAIN value |-> ConfigValue(value[k], target)]

-----------------------------------------------------------------------------
\* Symbolic geometry.  The vector library (common/vector, common/2d) and the
\* edge grouping (common/edge-group) are not part of the sources at hand;
\* their results are kept symbolic:
\*   a LinePosition is [form, src, tgt, off, m1, m2]: the segment between the
\*   positions src and tgt, displaced laterally by off, its ends moved
\*   inwards by m1 and m2; form "line" moves the ends along the segment,
\*   "arc" along the circle of the curve, "stub" is the short line shown for
\*   a reversed curve.

\* { x1: 0, y1: 0, x2: 0, y2: 0 }
ZeroLine == [form |-> "line", src |-> [x |-> 0, y |-> 0], tgt |-> [x |-> 0, y |-> 0],
             off |-> 0, m1 |-> 0, m2 |-> 0]

\* v2d.positionsToLinePosition(source, target)
PositionsToLinePosition(source, target) ==
  [form |-> "line", src |-> source, tgt |-> target, off |-> 0, m1 |-> 0, m2 |-> 0]

\* v2d.applyMarginToLine(line, sourceMargin, targetMargin)
ApplyMarginToLine(line, sourceMargin, targetMargin) ==
  [line EXCEPT !.m1 = @ + sourceMargin, !.m2 = @ + targetMargin]

\* v2d.inverseLine(line): the ends swapped
InverseLine(line) ==
  [line EXCEPT !.src = line.tgt, !.tgt = line.src, !.off = 0 - line.off,
               !.m1 = line.m2, !.m2 = line.m1]

\* EdgeGroup.calculateEdgeShiftedPosition: the centre line displaced by the
\* edge's offset in its group, scaled by the zoom scale; a summarized edge is
\* drawn on the centre line
CalculateEdgeShiftedPosition(edgeLayoutPoint, isEdgeSummarized, source, target, s) ==
  [form |-> "line", src |-> source, tgt |-> target,
   off |-> IF isEdgeSummarized THEN 0 ELSE edgeLayoutPoint.pointInGroup * s,
   m1 |-> 0, m2 |-> 0]

\* the distance from the centre of a node to its outline along the line to
\* `other`: the radius of a circle; half the side the line leaves through
\* for a rectangle (the model's rectangles sit on axis-parallel edges only)
ShapeMargin(shape, pos, other) ==
  IF shape.type = "circle" THEN shape.radius
  ELSE IF pos.y = other.y THEN shape.width \div 2 ELSE shape.height \div 2

\* v2d.calculateDistancesFromCenterOfNodeToEndOfNode
CalculateDistancesFromCenterOfNodeToEndOfNode(source, target, sourceShape, targetShape) ==
  <<ShapeMargin(sourceShape, source, target), ShapeMargin(targetShape, target, source)>>

-----------------------------------------------------------------------------
\* The configuration the model runs under.  `fnStyle` says whether the style
\* attributes are functions of the entity or literals; `type` is the edge
\* type; `margin` the edge margin (Null or Num(k)); `src`, `tgt` the marker
\* types of the two ends.

Null == [tag |-> "null"]

\* a number where null or undefined may stand as well
Num(k) == [tag |-> "number", v |-> k]

Attr(fnStyle, prop, plus, v) == IF fnStyle THEN Fn(prop, plus) ELSE Lit(v)

Marker(type) ==
  [type |-> Lit(type), width |-> Lit(4), height |-> Lit(4), margin |-> Lit(-1),
   units |-> Lit("strokeWidth"), color |-> Lit(Null)]

Configs(fnStyle, type, margin, src, tgt) ==
  [node |->
     [normal   |-> [type |-> Lit("circle"), radius |-> Attr(fnStyle, "size", 0, 2),
                    width |-> Lit(4), height |-> Lit(4)],
      hover    |-> [type |-> Lit("circle"), radius |-> Attr(fnStyle, "size", 1, 3),
                    width |-> Lit(6), height |-> Lit(6)],
      selected |-> [type |-> Lit("rect"), radius |-> Attr(fnStyle, "size", 0, 2),
                    width |-> Lit(8), height |-> Lit(6)],
      draggable  |-> Attr(fnStyle, "drag", 0, TRUE),
      selectable |-> Attr(fnStyle, "drag", 0, TRUE),
      label |-> [visible |-> Lit(TRUE), text |-> Attr(fnStyle, "name", 0, "name")]],
   edge |->
     [normal   |-> [width |-> Attr(fnStyle, "width", 0, 2), color |-> Lit("black")],
      hover    |-> [width |-> Attr(fnStyle, "width", 1, 3), color |-> Lit("black")],
      selected |-> [width |-> Attr(fnStyle, "width", 1, 3), color |-> Lit("red")],
      selectable |-> Attr(fnStyle, "sel", 0, TRUE),
      gap |-> 2,
      type |-> type,
      marker |-> [source |-> Marker(src), target |-> Marker(tgt)],
      margin |-> margin,
      summarize |-> FALSE]]

\* the nodes and edges of the model carry the properties the functions read
NodeObj(id) == [name |-> id, size |-> 2, drag |-> TRUE]
EdgeObj(source, target) == [source |-> source, target |-> target, width |-> 2, sel |-> TRUE]

-----------------------------------------------------------------------------
\* Edge grouping (common/edge-group; makeEdgeGroupStates).  Edges joining the
\* same unordered node pair form a group, in insertion order of the edge map.

SamePair(a, b) ==
  \/ a.source = b.source /\ a.target = b.target
  \/ a.source = b.target /\ a.target = b.source

\* the ids of the group of edge `id`, in insertion order (`keys`)
GroupOf(edges, keys, id) == SelectSeq(keys, LAMBDA k : SamePair(edges[k], edges[id]))

IndexIn(seq, x) == CHOOSE i \in 1..Len(seq) : seq[i] = x

\* edgeLayoutPoints[id]: { groupWidth, pointInGroup }; the offsets of a group
\* are symmetric about its centre; undefined for an id that is no edge
EdgeLayoutPoint(edges, keys, id, gap) ==
  IF id \notin DOMAIN edges THEN Undefined
  ELSE LET g == GroupOf(edges, keys, id)
           n == Len(g)
           i == IndexIn(g, id) - 1
       IN  [groupWidth   |-> (n - 1) * gap,
            pointInGroup |-> (2 * i * gap - (n - 1) * gap) \div 2]

\* summarizedEdges[id]
IsEdgeSummarized(edges, keys, id, summarize) == id \in DOMAIN edges /\ summarize

-----------------------------------------------------------------------------
\* state.ts: the style getters

\* getNodeStaticShape (310-317)
GetNodeStaticShape(node, selected, config) ==
  IF selected /\ config.selected # Undefined
  THEN ConfigValues(config.selected, node)
  ELSE ConfigValues(config.normal, node)

\* getNodeShape (302-308)
GetNodeShape(node, selected, hovered, config) ==
  IF hovered /\ config.hover # Undefined
  THEN ConfigValues(config.hover, node)
  ELSE GetNodeStaticShape(node, selected, config)

\* getEdgeStroke (319-327)
GetEdgeStroke(edge, selected, hovered, config) ==
  IF selected THEN ConfigValues(config.selected, edge)
  ELSE IF hovered /\ config.hover # Undefined THEN ConfigValues(config.hover, edge)
  ELSE ConfigValues(config.normal, edge)

NONE_MARKER == [type |-> "none", width |-> 0, height |-> 0, margin |-> 0,
                units |-> "strokeWidth", color |-> Null]

\* toEdgeMarker (375-381)
ToEdgeMarker(marker) == IF marker.type = "none" THEN NONE_MARKER ELSE marker

\* getEdgeStroke throws (a style function is called with an undefined edge)
GetEdgeStrokeThrows(edge, selected, hovered, config) ==
  IF selected THEN ConfigValuesThrows(config.selected, edge)
  ELSE IF hovered /\ config.hover # Undefined THEN ConfigValuesThrows(config.hover, edge)
  ELSE ConfigValuesThrows(config.normal, edge)

\* the getter of the computed `line` (411-418); it reads edges.value[id]
\* without a presence check, so that a style function of the configuration
\* is called with an undefined edge and throws
LineGetter(edge, selected, hovered, config) ==
  IF \/ GetEdgeStrokeThrows(edge, selected, hovered, config)
     \/ ConfigValueThrows(config.normal.width, edge)
  THEN JsTypeError
  ELSE LET stroke      == GetEdgeStroke(edge, selected, hovered, config)
           normalWidth == ConfigValue(config.normal.width, edge)
           source      == ToEdgeMarker(ConfigValues(config.marker.source, <<edge, stroke>>))
           target      == ToEdgeMarker(ConfigValues(config.marker.target, <<edge, stroke>>))
       IN  [stroke |-> stroke, normalWidth |-> normalWidth,
            source |-> source, target |-> target]

\* the getter of the computed `selectable` of an edge (420)
EdgeSelectableGetter(edge, config) ==
  IF ConfigValueThrows(config.selectable, edge) THEN JsTypeError
  ELSE [val |-> ConfigValue(config.selectable, edge)]

-----------------------------------------------------------------------------
\* state.ts: the geometry of one edge (the first watchEffect of
\* createEdgeState and calculateCurvePositionAndState)

Sign(x) == IF x > 0 THEN 1 ELSE IF x < 0 THEN -1 ELSE 0

\* the variant that always measures the margins from the outline of the node
EdgeMarginsFromOutline(l, config, sourceShapeMargin, targetShapeMargin) ==
  <<sourceShapeMargin + (IF config.margin \in {Null, Undefined} THEN 0 ELSE config.margin.v),
    targetShapeMargin + (IF config.margin \in {Null, Undefined} THEN 0 ELSE config.margin.v)>>

\* the variant that scales the marker part by the width of the stroke as it
\* is drawn
EdgeMarginsByStrokeWidth(l, config, sourceShapeMargin, targetShapeMargin) ==
  LET sm0 == IF l.source.type # "none"
             THEN IF l.source.units = "strokeWidth"
                  THEN (l.source.margin + l.source.width) * l.stroke.width
                  ELSE l.source.margin + l.source.width
             ELSE 0
      tm0 == IF l.target.type # "none"
             THEN IF l.target.units = "strokeWidth"
                  THEN (l.target.margin + l.target.width) * l.stroke.width
                  ELSE l.target.margin + l.target.width
             ELSE 0
  IN  IF config.margin = Null \/ config.margin = Undefined
      THEN IF l.source.type # "none" \/ l.target.type # "none"
           THEN <<sm0 + sourceShapeMargin, tm0 + targetShapeMargin>>
           ELSE <<sm0, tm0>>
      ELSE <<sm0 + config.margin.v + sourceShapeMargin,
             tm0 + config.margin.v + targetShapeMargin>>

\* the variant that, without a configured margin, adds the shape margin only
\* at an end that has a marker
EdgeMarginsMarkedEndOnly(l, config, sourceShapeMargin, targetShapeMargin) ==
  LET sm0 == IF l.source.type # "none"
             THEN IF l.source.units = "strokeWidth"
                  THEN (l.source.margin + l.source.width) * l.normalWidth
                  ELSE l.source.margin + l.source.width
             ELSE 0
      tm0 == IF l.target.type # "none"
             THEN IF l.target.units = "strokeWidth"
                  THEN (l.target.margin + l.target.width) * l.normalWidth
                  ELSE l.target.margin + l.target.width
             ELSE 0
  IN  IF config.margin = Null \/ config.margin = Undefined
      THEN <<IF l.source.type # "none" THEN sm0 + sourceShapeMargin ELSE sm0,
             IF l.target.type # "none" THEN tm0 + targetShapeMargin ELSE tm0>>
      ELSE <<sm0 + config.margin.v + sourceShapeMargin,
             tm0 + config.margin.v + targetShapeMargin>>

\* the margins of the two ends (460-487); l is the value of `line`
EdgeMargins(l, config, sourceShapeMargin, targetShapeMargin) ==
  LET sm0 == IF l.source.type # "none"
             THEN IF l.source.units = "strokeWidth"
                  THEN (l.source.margin + l.source.width) * l.normalWidth
                  ELSE l.source.margin + l.source.width
             ELSE 0
      tm0 == IF l.target.type # "none"
             THEN IF l.target.units = "strokeWidth"
                  THEN (l.target.margin + l.target.width) * l.normalWidth
                  ELSE l.target.margin + l.target.width
             ELSE 0
  IN  IF config.margin = Null \/ config.margin = Undefined
      THEN IF l.source.type # "none" \/ l.target.type # "none"
           THEN <<sm0 + sourceShapeMargin, tm0 + targetShapeMargin>>
           ELSE <<sm0, tm0>>
      ELSE <<sm0 + config.margin.v + sourceShapeMargin,
             tm0 + config.margin.v + targetShapeMargin>>

\* the variant whose short line has the centre of the shifted line for its
\* middle
StubLineCentred(shiftedPosition) ==
  [form |-> "stub", src |-> shiftedPosition.src, tgt |-> shiftedPosition.tgt,
   off |-> shiftedPosition.off, m1 |-> 0, m2 |-> 0, from2 |-> -1, to2 |-> 1]

\* the short line shown at the centre of a reversed curve (616-617): from
\* the centre of the shifted line to the point 0.5 further along its
\* direction.  from2 and to2 are the two ends, measured from the centre of
\* the shifted line along it, in halves of a unit.
StubLine(shiftedPosition) ==
  [form |-> "stub", src |-> shiftedPosition.src, tgt |-> shiftedPosition.tgt,
   off |-> shiftedPosition.off, m1 |-> 0, m2 |-> 0, from2 |-> 0, to2 |-> 1]

\* the ends of the origin moved along the circle of the curve (585-596)
MovedOnCircumference(originPosition, shiftedPosition, sourceMargin, targetMargin) ==
  [form |-> "arc", src |-> originPosition.src, tgt |-> originPosition.tgt,
   off |-> shiftedPosition.off, m1 |-> sourceMargin, m2 |-> targetMargin]

\* the curve descriptor (628-633); theta0 is kept by its sign, the circle and
\* the control points by what they are computed from
CurveOf(originPosition, shiftedPosition, position) ==
  [center  |-> [centerOf |-> shiftedPosition],
   theta   |-> Sign(shiftedPosition.off),
   circle  |-> [through |-> originPosition, via |-> shiftedPosition],
   control |-> [bezierOf |-> position, theta |-> Sign(shiftedPosition.off)]]

\* the variant that does not make the comparison of line 614
CalculateCurveIgnoringReversal(originPosition, shiftedPosition, shift, sourceMargin, targetMargin, reversed) ==
  IF shift = 0
  THEN [position |-> IF sourceMargin = 0 /\ targetMargin = 0
                     THEN originPosition
                     ELSE ApplyMarginToLine(originPosition, sourceMargin, targetMargin),
        curve |-> Undefined]
  ELSE [position |-> MovedOnCircumference(originPosition, shiftedPosition,
                                          sourceMargin, targetMargin),
        curve |-> CurveOf(originPosition, shiftedPosition,
                          MovedOnCircumference(originPosition, shiftedPosition,
                                               sourceMargin, targetMargin))]

\* the call of V.calculateCircleCenterAndRadiusBy3Points (555-559): the two
\* ends of the origin and the centre of the shifted line, which lies at the
\* distance |off| from the origin line
CircleBy3PointsCall(originPosition, shiftedPosition) ==
  [p1 |-> originPosition.src, p2 |-> originPosition.tgt,
   p3 |-> [centerOf |-> <<shiftedPosition.src, shiftedPosition.tgt>>,
           off |-> shiftedPosition.off]]

\* the three points of a call lie on one line
Collinear(call) ==
  \/ call.p1 = call.p2
  \/ call.p3.off = 0 /\ call.p3.centerOf = <<call.p1, call.p2>>

\* the calls of the circle routine in one run of calculateCurvePositionAndState:
\* line 555 comes before the test of `shift` in line 564
CurveCircleCalls(originPosition, shiftedPosition, shift) ==
  <<CircleBy3PointsCall(originPosition, shiftedPosition)>>

\* calculateCurvePositionAndState (540-635).  `reversed` is the outcome of the
\* comparison `theta1 * theta2 < 0` of line 614, which is only made when a
\* margin is not zero.
CalculateCurvePositionAndState(originPosition, shiftedPosition, shift, sourceMargin, targetMargin, reversed) ==
  IF shift = 0
  THEN [position |-> IF sourceMargin = 0 /\ targetMargin = 0
                     THEN originPosition
                     ELSE ApplyMarginToLine(originPosition, sourceMargin, targetMargin),
        curve |-> Undefined]
  ELSE IF sourceMargin = 0 /\ targetMargin = 0
  THEN [position |-> originPosition,
        curve |-> CurveOf(originPosition, shiftedPosition, originPosition)]
  ELSE IF reversed
  THEN [position |-> StubLine(shiftedPosition), curve |-> Undefined]
  ELSE LET position == MovedOnCircumference(originPosition, shiftedPosition,
                                            sourceMargin, targetMargin)
       IN  [position |-> position,
            curve |-> CurveOf(originPosition, shiftedPosition, position)]

\* The first watchEffect past its presence checks (438-513).  `prev` is the
\* edge state before the run; the result is the edge state after it.  l is
\* the value of `line`; s the scale.
EdgeGeometry(prev, source, target, sourceShape, targetShape, edgeLayoutPoint, isEdgeSummarized, s, l, config, reversed) ==
  LET shiftedPosition == CalculateEdgeShiftedPosition(edgeLayoutPoint, isEdgeSummarized,
                                                      source, target, s)
      shapeMargins == CalculateDistancesFromCenterOfNodeToEndOfNode(
                        source, target, sourceShape, targetShape)
      labelPosition == ApplyMarginToLine(shiftedPosition,
                                         shapeMargins[1] * s, shapeMargins[2] * s)
      margins == EdgeMargins(l, config, shapeMargins[1], shapeMargins[2])
      sourceMargin == margins[1]
      targetMargin == margins[2]
  IN  IF config.type = "straight"
      THEN [prev EXCEPT
              !.labelPosition = labelPosition,
              !.origin = shiftedPosition,
              !.curve = Undefined,
              !.position = IF sourceMargin = 0 /\ targetMargin = 0
                           THEN shiftedPosition
                           ELSE ApplyMarginToLine(shiftedPosition,
                                                  sourceMargin * s, targetMargin * s),
              !.reversed = FALSE]
      ELSE LET origin == PositionsToLinePosition(source, target)
               shift  == edgeLayoutPoint.groupWidth \div 2 - edgeLayoutPoint.pointInGroup
               pc     == CalculateCurvePositionAndState(origin, shiftedPosition, shift,
                            sourceMargin * s, targetMargin * s, reversed)
           IN  [prev EXCEPT
                  !.labelPosition = labelPosition,
                  !.origin = origin,
                  !.position = pc.position,
                  !.curve = pc.curve,
                  !.reversed = /\ shift # 0
                               /\ ~(sourceMargin = 0 /\ targetMargin = 0)
                               /\ reversed]

\* the variant whose early return clears the geometry instead of leaving it
CalcEdgeGeometryClearing(prev, edge, source, target, sourceShape, targetShape, edgeLayoutPoint, isEdgeSummarized, s, l, config, reversed) ==
  IF edge = Undefined THEN prev
  ELSE IF source = Undefined \/ target = Undefined
          \/ sourceShape = Undefined \/ targetShape = Undefined
  THEN [prev EXCEPT !.origin = ZeroLine, !.position = ZeroLine,
                    !.labelPosition = ZeroLine, !.curve = Undefined]
  ELSE EdgeGeometry(prev, source, target, sourceShape, targetShape,
                    edgeLayoutPoint, isEdgeSummarized, s, l, config, reversed)

\* The body of the first watchEffect (425-514): edge, source, target,
\* sourceShape, targetShape are what the effect reads (Undefined when missing).
CalcEdgeGeometry(prev, edge, source, target, sourceShape, targetShape, edgeLayoutPoint, isEdgeSummarized, s, l, config, reversed) ==
  IF edge = Undefined THEN prev
  ELSE IF source = Undefined \/ target = Undefined
          \/ sourceShape = Undefined \/ targetShape = Undefined THEN prev
  ELSE EdgeGeometry(prev, source, target, sourceShape, targetShape,
                    edgeLayoutPoint, isEdgeSummarized, s, l, config, reversed)

-----------------------------------------------------------------------------
\* Bounds and input universes of the path list

MaxPaths   == 2      \* paths in props.paths
MaxPathLen == 2      \* edge ids in one path
PathEdgeIds == {"e1", "e2"}          \* ids a path may name

\* the Edge objects of the test topology (source/target per id)
EdgeDef == [e1 |-> [source |-> "A", target |-> "B"],
            e2 |-> [source |-> "B", target |-> "C"]]

SeqsUpTo(S, n) == UNION {[1..k -> S] : k \in 0..n}

PathInputs == {[edges |-> es] : es \in SeqsUpTo(PathEdgeIds, MaxPathLen)}

-----------------------------------------------------------------------------
\* pathList (marker-head-angle.vue 109-121)

\* path.edges.map(edgeId => ({ edgeId, edge: props.edges[edgeId] }))
MapEdgeObjects(path, edges) ==
  [i \in 1..Len(path.edges) |->
     [edgeId |-> path.edges[i], edge |-> Lookup(edges, path.edges[i])]]

\* .filter(e => e.edge): an Edge object is truthy, undefined is not
FilterTruthyEdge(objs) == SelectSeq(objs, LAMBDA e : e.edge # Undefined)

\* the variant that keeps a path with its known edges only (no `continue`)
RECURSIVE PathListPartial(_, _)
PathListPartial(ps, edges) ==
  IF ps = <<>> THEN <<>>
  ELSE LET path == Head(ps)
           es   == FilterTruthyEdge(MapEdgeObjects(path, edges))
       IN  <<[path |-> path, edges |-> es]>> \o PathListPartial(Tail(ps), edges)

RECURSIVE PathListOf(_, _)
PathListOf(ps, edges) ==
  IF ps = <<>> THEN <<>>
  ELSE LET path == Head(ps)
           es   == FilterTruthyEdge(MapEdgeObjects(path, edges))
           rest == PathListOf(Tail(ps), edges)
       IN  IF Len(es) # Len(path.edges)
           THEN rest                \* reject a path includes unknown edge ID
           ELSE <<[path |-> path, edges |-> es]>> \o rest

InitPaths ==
  /\ paths \in SeqsUpTo(PathInputs, MaxPaths)
  /\ \E known \in SUBSET PathEdgeIds : propsEdges = [id \in known |-> EdgeDef[id]]
  /\ pathList = <<>>
  /\ plPc = "input"

IdlePaths ==
  /\ paths = <<>>
  /\ propsEdges = <<>>
  /\ pathList = <<>>
  /\ plPc = "idle"

\* the computed is evaluated
EvalPathList ==
  /\ plPc = "input"
  /\ pathList' = PathListOf(paths, propsEdges)
  /\ plPc' = "done"
  /\ UNCHANGED <<paths, propsEdges>>

\* props.edges changes (an edge is added or removed): the computed is dirty again
ChangePropsEdges ==
  /\ plPc = "done"
  /\ \E id \in PathEdgeIds :
       propsEdges' = IF id \in DOMAIN propsEdges
                     THEN [k \in DOMAIN propsEdges \ {id} |-> propsEdges[k]]
                     ELSE [k \in DOMAIN propsEdges \cup {id} |-> EdgeDef[k]]
  /\ plPc' = "input"
  /\ UNCHANGED <<paths, pathList>>

NextPaths ==
  \/ EvalPathList /\ UNCHANGED <<varsDir, varsPts, varsSt, varsGeo, varsSum, varsTr>>
  \/ ChangePropsEdges /\ UNCHANGED <<varsDir, varsPts, varsSt, varsGeo, varsSum, varsTr>>

-----------------------------------------------------------------------------
\* _detectDirectionsOfPathEdges (marker-head-angle.vue 419-460)

MaxChain == 4        \* edges in a chain
DirNodes == {"A", "B", "C"}

\* the order of node ids under Array.prototype.sort (UTF-16 code units)
Rank(n) == CASE n = "A" -> 1 [] n = "B" -> 2 [] n = "C" -> 3 [] OTHER -> 4

\* [a, b].sort()
Sort2(a, b) == IF Rank(b) < Rank(a) THEN <<b, a>> ELSE <<a, b>>

ChainEdges == {[edgeId |-> "e", edge |-> [source |-> s, target |-> t]] :
                 s \in DirNodes, t \in DirNodes}

\* the variant that looks at the next edge only
FirstIsForwardByNextEdge(edges) ==
  Includes2(edges[2].edge.source, edges[2].edge.target, edges[1].edge.target)

\* the direction of edges[0] (the `i === 0` branch); sequences are 1-based here
FirstIsForward(edges) ==
  LET length == Len(edges)
      source == edges[1].edge.source
      target == edges[1].edge.target
  IN  IF length > 2
      THEN LET edge0 == Sort2(source, target)
               edge1 == Sort2(edges[2].edge.source, edges[2].edge.target)
           IN  IF edge0[1] = edge1[1] /\ edge0[2] = edge1[2]
               THEN IF Includes2(edges[3].edge.source, edges[3].edge.target,
                                 edges[2].edge.target)
                    THEN target = edges[2].edge.source    \* edge1 is forward
                    ELSE target = edges[2].edge.target    \* edge1 is reverse
               ELSE Includes2(edges[2].edge.source, edges[2].edge.target, target)
      ELSE Includes2(edges[2].edge.source, edges[2].edge.target, target)

\* the loop: directions of edges[i..], entered with `lastNode`
RECURSIVE DirectionsFrom(_, _, _)
DirectionsFrom(edges, i, lastNode) ==
  IF i > Len(edges) THEN <<>>
  ELSE LET isForward == IF i = 1 THEN FirstIsForward(edges)
                        ELSE lastNode = edges[i].edge.source
           next == IF isForward THEN edges[i].edge.target ELSE edges[i].edge.source
       IN  <<isForward>> \o DirectionsFrom(edges, i + 1, next)

DetectDirections(edges) ==
  IF Len(edges) <= 1 THEN <<TRUE>>
  ELSE DirectionsFrom(edges, 1, Undefined)

InitDir ==
  /\ \E n \in 1..MaxChain : chain \in [1..n -> ChainEdges]
  /\ directions = <<>>
  /\ dirPc = "input"

IdleDir ==
  /\ chain = <<>>
  /\ directions = <<>>
  /\ dirPc = "idle"

Detect ==
  /\ dirPc = "input"
  /\ directions' = DetectDirections(chain)
  /\ dirPc' = "done"
  /\ UNCHANGED chain

NextDir == Detect /\ UNCHANGED <<varsPaths, varsPts, varsSt, varsGeo, varsSum, varsTr>>

-----------------------------------------------------------------------------
\* The edge state record (state.ts 397-407) as createEdgeState leaves it

\* line and selectable hold the cached value of the computed (Undefined: never
\* evaluated).  calcActive / markerActive: the effect has not been stopped;
\* calcDeps, markerDeps, ends: what the effect read when it last ran.
\* computed: the first effect has run to its end; reversed: its last run to
\* the end found the ends of the curve reversed (line 614).
NewEdgeState(selected) ==
  [line |-> Undefined, selectable |-> Undefined,
   selected |-> selected, hovered |-> FALSE,
   curve |-> Undefined,
   origin |-> ZeroLine, labelPosition |-> ZeroLine, position |-> ZeroLine,
   sourceMarkerId |-> Undefined, targetMarkerId |-> Undefined,
   calcActive |-> TRUE, markerActive |-> TRUE,
   calcDeps |-> "edge", markerDeps |-> "edge", ends |-> {},
   computed |-> FALSE, reversed |-> FALSE]

-----------------------------------------------------------------------------
\* The path point engine: _calculatePathPoints (marker-head-angle.vue 161-409)

MaxPtsEdges == 2     \* edges in the path handed to the engine
MaxMargin   == 4     \* the configured path margin ranges over 0..MaxMargin
MaxScale    == 2     \* the zoom scale ranges over 1..MaxScale

\* the topology the engine is run on: e1 and e2 are parallel (one group),
\* e3 meets them at B
PtPositions == [A |-> [x |-> 0, y |-> 0], B |-> [x |-> 6, y |-> 0], C |-> [x |-> 6, y |-> 8]]
PtEdges     == [e1 |-> EdgeObj("A", "B"), e2 |-> EdgeObj("A", "B"), e3 |-> EdgeObj("C", "B")]
PtEdgeKeys  == <<"e1", "e2", "e3">>

PtInputs ==
  [edges : UNION {[1..n -> {[edgeId |-> id, edge |-> PtEdges[id]] : id \in DOMAIN PtEdges}]
                    : n \in 0..MaxPtsEdges},
   type : {"straight", "curve"},
   curveInNode : BOOLEAN,
   end : {"centerOfNode", "edgeOfNode"},
   margin : 0..MaxMargin,
   scale : 1..MaxScale,
   hov : SUBSET {"A", "B"}]

PtConfigs(in) == Configs(FALSE, in.type, Null, "none", "none")

\* nodeStates[n].shape and .staticShape for the call
PtNodeShape(in, n) == GetNodeShape(NodeObj(n), FALSE, n \in in.hov, PtConfigs(in).node)
PtStaticShape(in, n) == GetNodeStaticShape(NodeObj(n), FALSE, PtConfigs(in).node)

\* edgeStates[id] for the call: the state the edge's effect has computed
PtEdgeState(in, id) ==
  LET edge == PtEdges[id]
      cfg  == PtConfigs(in).edge
  IN  CalcEdgeGeometry(NewEdgeState(FALSE), edge,
                       PtPositions[edge.source], PtPositions[edge.target],
                       PtStaticShape(in, edge.source), PtStaticShape(in, edge.target),
                       EdgeLayoutPoint(PtEdges, PtEdgeKeys, id, cfg.gap),
                       IsEdgeSummarized(PtEdges, PtEdgeKeys, id, cfg.summarize),
                       in.scale, LineGetter(edge, FALSE, FALSE, cfg), cfg, FALSE)

Min(a, b) == IF a < b THEN a ELSE b

\* _getNodeRadius (411-417)
GetNodeRadius(shape) ==
  IF shape.type = "circle" THEN shape.radius ELSE Min(shape.width, shape.height) \div 2

\* _getEdgeLine (583-605)
GetEdgeLine(edge, direction, state) ==
  IF direction
  THEN [edgeId |-> edge.edgeId, source |-> edge.edge.source, target |-> edge.edge.target,
        line |-> state.origin, curve |-> state.curve]
  ELSE [edgeId |-> edge.edgeId, source |-> edge.edge.target, target |-> edge.edge.source,
        line |-> InverseLine(state.origin),
        curve |-> IF state.curve # Undefined
                  THEN [state.curve EXCEPT !.theta = 0 - @]
                  ELSE state.curve]

\* the variant of the comparison that leaves out the equal case
DistanceLess(line, t) ==
  /\ t >= 0
  /\ (line.tgt.x - line.src.x) * (line.tgt.x - line.src.x)
       + (line.tgt.y - line.src.y) * (line.tgt.y - line.src.y) < t * t

\* V.calculateDistance(line.source, line.target) <= t, on squared distances;
\* a lateral displacement moves both ends alike
DistanceLeq(line, t) ==
  /\ t >= 0
  /\ (line.tgt.x - line.src.x) * (line.tgt.x - line.src.x)
       + (line.tgt.y - line.src.y) * (line.tgt.y - line.src.y) <= t * t

\* a point of the result: what it is (k) and the edge or transit it belongs to
Pt(k, e) == [k |-> k, e |-> e]

\* an element of the result: a point, or an array of points
PointElem(p) == [arr |-> FALSE, v |-> <<p>>]
ArrayElem(ps) == [arr |-> TRUE, v |-> ps]

\* v2d.calculateBezierCurveControlPoint: two control points
ControlPoints(e) == <<Pt("control1", e), Pt("control2", e)>>

\* _calculateEdgeOfNode (462-503) for edge number e of the path; `hit` says
\* whether the line meets the circle (V.getIntersectionOfLineTargetAndCircle
\* is not null)
CalculateEdgeOfNode(edge, e, direction, hit) ==
  IF edge.curve # Undefined
  THEN Pt(IF direction THEN "movedFromLineSource" ELSE "movedFromLineTarget", e)
  ELSE IF hit
       THEN Pt(IF direction THEN "circleAtSource" ELSE "circleAtTarget", e)
       ELSE Pt(IF direction THEN "lineTarget" ELSE "lineSource", e)

\* findFirstNonNull(a, b, c) where c is never null
FindFirstNonNull(hasA, a, hasB, b, c) == IF hasA THEN a ELSE IF hasB THEN b ELSE c

\* The variant whose branch for an intersection outside the node falls back
\* to the ends of the lines, as the branch without an intersection does
TransitPosUniform(i, cross, pc, nc, pn, nn, nearP, nearN) ==
  LET prevCoreIp == Pt("prevCoreIp", i)
      nextCoreIp == Pt("nextCoreIp", i)
      prevNodeIp == Pt("prevNodeIp", i)
      nextNodeIp == Pt("nextNodeIp", i)
      prevTarget == Pt("lineTarget", i - 1)
      nextSource == Pt("lineSource", i)
      crossPoint == Pt("crossPoint", i)
      nodePos    == Pt("nodePos", i)
      byCircles  == IF pc /\ nc THEN <<prevCoreIp, nodePos, nextCoreIp>>
                    ELSE IF pn /\ nn THEN <<prevNodeIp, nodePos, nextNodeIp>>
                    ELSE <<>>
  IN  CASE cross = "core" ->
             <<FindFirstNonNull(pc, prevCoreIp, pn, prevNodeIp, prevTarget),
               crossPoint,
               FindFirstNonNull(nc, nextCoreIp, nn, nextNodeIp, nextSource)>>
        [] cross = "node" ->
             <<IF pn /\ pc THEN (IF nearP THEN prevCoreIp ELSE prevNodeIp)
               ELSE IF pn THEN prevNodeIp ELSE prevTarget,
               crossPoint,
               IF nn /\ nc THEN (IF nearN THEN nextCoreIp ELSE nextNodeIp)
               ELSE IF nn THEN nextNodeIp ELSE nextSource>>
        [] OTHER ->
             IF byCircles # <<>> THEN byCircles
             ELSE <<prevTarget, nodePos, nextSource>>

\* The transit points in the node between edge i-1 and edge i (236-318).
\* What the geometry gives is an input of the step:
\*   cross: where the intersection [X] of the two lines lies - "none" (no
\*          intersection), "core" (d < nodeCoreRadius), "node" (d <= nodeRadius),
\*          "out";
\*   pc, nc, pn, nn: prevCoreIp, nextCoreIp, prevNodeIp, nextNodeIp are not null;
\*   nearP, nearN: the core intersection is the one closer to [X].
TransitPos(i, cross, pc, nc, pn, nn, nearP, nearN) ==
  LET prevCoreIp == Pt("prevCoreIp", i)
      nextCoreIp == Pt("nextCoreIp", i)
      prevNodeIp == Pt("prevNodeIp", i)
      nextNodeIp == Pt("nextNodeIp", i)
      prevTarget == Pt("lineTarget", i - 1)
      nextSource == Pt("lineSource", i)
      crossPoint == Pt("crossPoint", i)
      nodePos    == Pt("nodePos", i)
      byCircles  == IF pc /\ nc THEN <<prevCoreIp, nodePos, nextCoreIp>>
                    ELSE IF pn /\ nn THEN <<prevNodeIp, nodePos, nextNodeIp>>
                    ELSE <<>>
  IN  CASE cross = "core" ->
             <<FindFirstNonNull(pc, prevCoreIp, pn, prevNodeIp, prevTarget),
               crossPoint,
               FindFirstNonNull(nc, nextCoreIp, nn, nextNodeIp, nextSource)>>
        [] cross = "node" ->
             <<IF pn /\ pc THEN (IF nearP THEN prevCoreIp ELSE prevNodeIp)
               ELSE IF pn THEN prevNodeIp ELSE prevTarget,
               crossPoint,
               IF nn /\ nc THEN (IF nearN THEN nextCoreIp ELSE nextNodeIp)
               ELSE IF nn THEN nextNodeIp ELSE nextSource>>
        [] cross = "out" ->
             IF byCircles # <<>> THEN byCircles
             ELSE <<FindFirstNonNull(pc, prevCoreIp, pn, prevNodeIp, prevTarget),
                    nodePos,
                    FindFirstNonNull(nc, nextCoreIp, nn, nextNodeIp, nextSource)>>
        [] OTHER ->
             IF byCircles # <<>> THEN byCircles
             ELSE <<prevTarget, nodePos, nextSource>>

\* every pos the geometry can lead to
TransitPosOutcomes(i) ==
  {TransitPos(i, cross, pc, nc, pn, nn, nearP, nearN) :
     cross \in {"none", "core", "node", "out"}, pc \in BOOLEAN, nc \in BOOLEAN,
     pn \in BOOLEAN, nn \in BOOLEAN, nearP \in BOOLEAN, nearN \in BOOLEAN}

\* ---- the transit points of one node on their own, from the numbers.
\* Lengths are in thirds of a unit, so that two thirds of a radius is whole.

MaxDist3 == 50     \* the distance of [X] from the node centre ranges over 0..MaxDist3

Max(a, b) == IF a > b THEN a ELSE b

\* three times nodeCoreRadius (226); nodeRadius is the scaled radius (225)
NodeCoreRadius3(nodeRadius, s) == Max(2 * nodeRadius, 3 * nodeRadius - 12 * s)

\* the variant that compares d < nodeRadius
CrossTierStrict(hasCross, d3, nodeRadius, s) ==
  IF ~hasCross THEN "none"
  ELSE IF d3 < NodeCoreRadius3(nodeRadius, s) THEN "core"
  ELSE IF d3 < 3 * nodeRadius THEN "node"
  ELSE "out"

\* the branch the code takes (236-238, 248, 278, 301): hasCross says that
\* crossPoint is not null, d3 is three times its distance from the node centre
CrossTier(hasCross, d3, nodeRadius, s) ==
  IF ~hasCross THEN "none"
  ELSE IF d3 < NodeCoreRadius3(nodeRadius, s) THEN "core"
  ELSE IF d3 <= 3 * nodeRadius THEN "node"
  ELSE "out"

\* the radius of the shape of the node (circles of radius 2, 3 and 15)
TrInputs ==
  [hasCross : BOOLEAN, d3 : 0..MaxDist3, radius : {2, 3, 15}, s : 1..MaxScale,
   pc : BOOLEAN, nc : BOOLEAN, pn : BOOLEAN, nn : BOOLEAN,
   nearP : BOOLEAN, nearN : BOOLEAN]

TrNodeRadius(in) ==
  GetNodeRadius([type |-> "circle", radius |-> in.radius, width |-> 0, height |-> 0]) * in.s

InitTr ==
  /\ trIn \in TrInputs
  /\ trPos = <<>>
  /\ trPc = "input"

IdleTr == trIn = <<>> /\ trPos = <<>> /\ trPc = "idle"

\* the transit points in the node between edge 1 and edge 2 (215-318)
TrCalculate ==
  /\ trPc = "input"
  /\ trPos' = TransitPos(2, CrossTier(trIn.hasCross, trIn.d3, TrNodeRadius(trIn), trIn.s),
                          trIn.pc, trIn.nc, trIn.pn, trIn.nn, trIn.nearP, trIn.nearN)
  /\ trPc' = "done"
  /\ UNCHANGED trIn

NextTr ==
  \/ TrCalculate /\ UNCHANGED <<varsPaths, varsDir, varsPts, varsSt, varsGeo, varsSum>>

\* the last point of the last element of `points` (325-328, 377-378)
LastPoint(pts) == pts[Len(pts)].v[Len(pts[Len(pts)].v)]

\* the arguments of a call of v2d.calculateBezierCurveControlPoint (336-341,
\* 379-384)
ControlCall(lastPoint, curve, nextPoint) ==
  <<[from |-> lastPoint, center |-> curve.circle, to |-> nextPoint, theta |-> curve.theta]>>

\* the variant that never emits two separate points
TransitPushOneElement(prev, next, i, pos, curveInNode) ==
  IF prev.curve # Undefined
  THEN IF curveInNode
       THEN <<ArrayElem(ControlPoints(i - 1) \o pos)>>
       ELSE <<ArrayElem(ControlPoints(i - 1) \o <<pos[2]>>)>>
  ELSE IF curveInNode THEN <<ArrayElem(pos)>>
  ELSE <<PointElem(pos[2])>>

\* "Specify points on the curve" (320-359): what the transit appends
TransitPush(prev, next, i, pos, curveInNode) ==
  IF prev.curve # Undefined
  THEN LET nextPoint == IF curveInNode THEN pos[1] ELSE pos[2]
           control   == ControlPoints(i - 1)
       IN  IF curveInNode
           THEN <<ArrayElem(control \o pos)>>
           ELSE <<ArrayElem(control \o <<nextPoint>>)>>
  ELSE IF curveInNode THEN <<ArrayElem(pos)>>
  ELSE IF next.curve # Undefined THEN <<PointElem(pos[2])>>
  ELSE <<PointElem(pos[1]), PointElem(pos[3])>>

\* the variant that returns the points untrimmed
TrimNothing(pts, isMarginOverRunStart, isMarginOverRunEnd) == pts

\* the variant that removes the overrun ends and puts nothing in their place
TrimOverrunEndsOnly(pts, isMarginOverRunStart, isMarginOverRunEnd) ==
  SubSeq(pts, IF isMarginOverRunStart THEN 2 ELSE 1,
              IF isMarginOverRunEnd THEN Len(pts) - 1 ELSE Len(pts))

\* the removal of the ends the margin has overrun (398-406)
TrimOverrun(pts, isMarginOverRunStart, isMarginOverRunEnd) ==
  LET shifted == IF isMarginOverRunStart
                 THEN LET rest == Tail(pts)
                      IN  IF rest # <<>> /\ rest[1].arr
                          THEN <<PointElem(rest[1].v[1])>> \o rest
                          ELSE rest
                 ELSE pts
  IN  IF isMarginOverRunEnd
      THEN SubSeq(shifted, 1, Len(shifted) - 1)
      ELSE shifted

InitPts ==
  /\ ptIn \in PtInputs
  /\ ptEdgePos = <<>>
  /\ points = <<>>
  /\ ptI = 0
  /\ overStart = FALSE
  /\ overEnd = FALSE
  /\ ptPos = <<>>
  /\ ptControl = <<>>
  /\ ptPc = "start"

IdlePts ==
  /\ ptIn = <<>>
  /\ ptEdgePos = <<>>
  /\ points = <<>>
  /\ ptI = 0
  /\ overStart = FALSE
  /\ overEnd = FALSE
  /\ ptPos = <<>>
  /\ ptControl = <<>>
  /\ ptPc = "idle"

\* calcPathPoints for an empty path (124)
PtEmpty ==
  /\ ptPc = "start"
  /\ Len(ptIn.edges) = 0
  /\ ptPc' = "done"
  /\ UNCHANGED <<ptIn, ptEdgePos, points, ptI, overStart, overEnd, ptPos, ptControl>>

\* directions, edgePos and the starting point (174-205)
PtStart ==
  /\ ptPc = "start"
  /\ Len(ptIn.edges) > 0
  /\ LET edges   == ptIn.edges
         dirs    == DetectDirections(edges)
         edgePos == [i \in 1..Len(edges) |->
                       GetEdgeLine(edges[i], dirs[i], PtEdgeState(ptIn, edges[i].edgeId))]
         margin  == ptIn.margin * ptIn.scale
         firstEdge  == edgePos[1]
         nodeRadius == GetNodeRadius(PtNodeShape(ptIn, firstEdge.source)) * ptIn.scale
         lineMargin == margin + (IF ptIn.end = "edgeOfNode" THEN nodeRadius ELSE 0)
         nodeRadius2 == GetNodeRadius(PtNodeShape(ptIn, firstEdge.target)) * ptIn.scale
     IN  /\ ptEdgePos' = edgePos
         /\ \E hit \in BOOLEAN :
              points' = <<PointElem(IF lineMargin <= 0
                                    THEN Pt("lineSource", 1)
                                    ELSE CalculateEdgeOfNode(firstEdge, 1, TRUE, hit))>>
         /\ overStart' = (margin > 0 /\ DistanceLeq(firstEdge.line, lineMargin + nodeRadius2))
         /\ ptI' = 2
         /\ ptPc' = IF Len(edges) > 1 THEN "transit" ELSE "end"
  /\ UNCHANGED <<ptIn, overEnd, ptPos, ptControl>>

\* one round of the transit loop (211-360)
PtTransit ==
  /\ ptPc = "transit"
  /\ \E pos \in TransitPosOutcomes(ptI) :
       /\ points' = points \o TransitPush(ptEdgePos[ptI - 1], ptEdgePos[ptI], ptI, pos,
                                          ptIn.curveInNode)
       /\ ptPos' = pos
       /\ ptControl' = IF ptEdgePos[ptI - 1].curve # Undefined
                        THEN ControlCall(LastPoint(points), ptEdgePos[ptI - 1].curve,
                                         IF ptIn.curveInNode THEN pos[1] ELSE pos[2])
                        ELSE ptControl
  /\ ptI' = ptI + 1
  /\ ptPc' = IF ptI + 1 > Len(ptEdgePos) THEN "end" ELSE "transit"
  /\ UNCHANGED <<ptIn, ptEdgePos, overStart, overEnd>>

\* the terminate point (365-396)
PtEnd ==
  /\ ptPc = "end"
  /\ LET n == Len(ptEdgePos)
         lastEdge == ptEdgePos[n]
         margin  == ptIn.margin * ptIn.scale
         nodeRadius == GetNodeRadius(PtNodeShape(ptIn, lastEdge.target)) * ptIn.scale
         lineMargin == margin + (IF ptIn.end = "edgeOfNode" THEN nodeRadius ELSE 0)
         nodeRadius2 == GetNodeRadius(PtNodeShape(ptIn, lastEdge.source)) * ptIn.scale
     IN  /\ \E hit \in BOOLEAN :
              LET nextPoint == IF lineMargin <= 0
                               THEN Pt("lineTarget", n)
                               ELSE CalculateEdgeOfNode(lastEdge, n, FALSE, hit)
              IN  /\ points' = Append(points,
                                 IF lastEdge.curve # Undefined
                                 THEN ArrayElem(ControlPoints(n) \o <<nextPoint>>)
                                 ELSE PointElem(nextPoint))
                  /\ ptControl' = IF lastEdge.curve # Undefined
                                   THEN ControlCall(LastPoint(points), lastEdge.curve, nextPoint)
                                   ELSE ptControl
         /\ overEnd' = (margin > 0 /\ DistanceLeq(lastEdge.line, lineMargin + nodeRadius2))
  /\ ptPc' = "trim"
  /\ UNCHANGED <<ptIn, ptEdgePos, ptI, overStart, ptPos>>

\* the overrun handling and the return (398-408)
PtReturn ==
  /\ ptPc = "trim"
  /\ points' = TrimOverrun(points, overStart, overEnd)
  /\ ptPc' = "done"
  /\ UNCHANGED <<ptIn, ptEdgePos, ptI, overStart, overEnd, ptPos, ptControl>>

NextPts ==
  \/ PtEmpty /\ UNCHANGED <<varsPaths, varsDir, varsSt, varsGeo, varsSum, varsTr>>
  \/ PtStart /\ UNCHANGED <<varsPaths, varsDir, varsSt, varsGeo, varsSum, varsTr>>
  \/ PtTransit /\ UNCHANGED <<varsPaths, varsDir, varsSt, varsGeo, varsSum, varsTr>>
  \/ PtEnd /\ UNCHANGED <<varsPaths, varsDir, varsSt, varsGeo, varsSum, varsTr>>
  \/ PtReturn /\ UNCHANGED <<varsPaths, varsDir, varsSt, varsGeo, varsSum, varsTr>>

-----------------------------------------------------------------------------
\* The state layer: provideStates (state.ts 111-292) under Vue's scheduler.
\*
\* The handlers are written as functions of a store S, the record of all the
\* variables of the layer; an action commits the store a handler returns.

Store ==
  [nodes |-> nodes, edges |-> edgeMap, edgeKeys |-> edgeKeys, layouts |-> layouts,
   selectedNodes |-> selectedNodes, selectedEdges |-> selectedEdges,
   hoveredNodes |-> hoveredNodes, hoveredEdges |-> hoveredEdges,
   edgeType |-> edgeType, fnStyle |-> styleFns, scale |-> scale,
   nodeStates |-> nodeStates, edgeStates |-> edgeStates, markers |-> markers,
   activeCbs |-> activeCbs, pendingCbs |-> pendingCbs, oldValues |-> oldValues,
   disposals |-> disposals]

Commit(S) ==
  /\ nodes' = S.nodes /\ edgeMap' = S.edges /\ edgeKeys' = S.edgeKeys
  /\ layouts' = S.layouts
  /\ selectedNodes' = S.selectedNodes /\ selectedEdges' = S.selectedEdges
  /\ hoveredNodes' = S.hoveredNodes /\ hoveredEdges' = S.hoveredEdges
  /\ edgeType' = S.edgeType /\ styleFns' = S.fnStyle /\ scale' = S.scale
  /\ nodeStates' = S.nodeStates /\ edgeStates' = S.edgeStates
  /\ markers' = S.markers
  /\ activeCbs' = S.activeCbs /\ pendingCbs' = S.pendingCbs
  /\ oldValues' = S.oldValues
  /\ disposals' = S.disposals

\* delete obj[k] / obj[k] = v on a plain object
Del(f, k)    == [x \in DOMAIN f \ {k} |-> f[x]]
Put(f, k, v) == [x \in DOMAIN f \cup {k} |-> IF x = k THEN v ELSE f[x]]

\* the configuration of the layer (the markers: none at the source, an arrow
\* at the target; no edge margin)
StConfigs(S) == Configs(S.fnStyle, S.edgeType, Null, "none", "arrow")

\* ---- the scheduler (flush: 'pre').  A job is [w |-> watcher, id |-> entity].
Job(w, id) == [w |-> w, id |-> id]

InSeq(seq, x) == \E i \in 1..Len(seq) : seq[i] = x

\* queuePreFlushCb: a job waiting in the flush under way (the running one is
\* its head) or already pending is not queued again
Enqueue(S, j) ==
  IF InSeq(S.activeCbs, j) \/ InSeq(S.pendingCbs, j) THEN S
  ELSE [S EXCEPT !.pendingCbs = Append(@, j)]

RECURSIVE EnqueueAll(_, _)
EnqueueAll(S, js) ==
  IF js = <<>> THEN S ELSE EnqueueAll(Enqueue(S, Head(js)), Tail(js))

\* the ids of the edge states, in the order of the edge ids of the model
StateIds(S) == SelectSeq(<<"e1", "e2">>, LAMBDA e : e \in DOMAIN S.edgeStates)

\* ---- what a change triggers.  An effect is triggered by what it read when
\* it last ran: edgeStates[e].calcDeps / markerDeps is "edge" when the run
\* stopped at the missing edge, "inputs" when it stopped at a missing
\* position or shape (ends: the node ids it looked up), "full" otherwise.

\* the first effects of the edges that looked up node n
CalcJobsOfNode(S, n) ==
  LET ids == SelectSeq(StateIds(S), LAMBDA e :
               /\ S.edgeStates[e].calcActive
               /\ S.edgeStates[e].calcDeps # "edge"
               /\ n \in S.edgeStates[e].ends)
  IN  [i \in 1..Len(ids) |-> Job("calc", ids[i])]

\* the first effects that ran to the end, of the edges in `among`
CalcJobsFull(S, among) ==
  LET ids == SelectSeq(StateIds(S), LAMBDA e :
               /\ S.edgeStates[e].calcActive
               /\ S.edgeStates[e].calcDeps = "full"
               /\ e \in among)
  IN  [i \in 1..Len(ids) |-> Job("calc", ids[i])]

\* both effects of edge e (they read edges.value[e] first of all)
EffectJobsOfEdge(S, e) ==
  IF e \in DOMAIN S.edgeStates
  THEN (IF S.edgeStates[e].calcActive THEN <<Job("calc", e)>> ELSE <<>>)
       \o (IF S.edgeStates[e].markerActive THEN <<Job("marker", e)>> ELSE <<>>)
  ELSE <<>>

\* the effects that read `line` of edge e
LineJobsOfEdge(S, e) ==
  IF e \in DOMAIN S.edgeStates
  THEN (IF S.edgeStates[e].calcActive /\ S.edgeStates[e].calcDeps = "full"
        THEN <<Job("calc", e)>> ELSE <<>>)
       \o (IF S.edgeStates[e].markerActive /\ S.edgeStates[e].markerDeps = "full"
           THEN <<Job("marker", e)>> ELSE <<>>)
  ELSE <<>>

\* nodes.value[n] is added or deleted: the computeds of its node state (and
\* through staticShape the edges' effects), then the watcher of the node ids
TriggerNodesKey(S, n) ==
  EnqueueAll(S, (IF n \in DOMAIN S.nodeStates THEN CalcJobsOfNode(S, n) ELSE <<>>)
                \o <<Job("nodes", "")>>)

\* layouts.nodes[n] is set or deleted; nodeStates[n] is added or deleted;
\* nodeStates[n].selected changes (staticShape)
TriggerLayoutKey(S, n)    == EnqueueAll(S, CalcJobsOfNode(S, n))
TriggerNodeStateKey(S, n) == EnqueueAll(S, CalcJobsOfNode(S, n))
TriggerNodeSelected(S, n) == EnqueueAll(S, CalcJobsOfNode(S, n))

\* the edges of the group of edge e (e taken as it is in `es`)
GroupMates(es, e) == {k \in DOMAIN es : SamePair(es[k], es[e])}

\* the variant in which the edges of the group are not told of the change
TriggerEdgesKeyAlone(S, e, before) ==
  EnqueueAll(S, EffectJobsOfEdge(S, e) \o <<Job("edges", "")>>)

\* edges.value[e] is added or deleted (`before`: the edges before the change):
\* the effects of e, the watcher of the edge ids, and the effects of the
\* edges whose place in the group changes
TriggerEdgesKey(S, e, before) ==
  LET all == IF e \in DOMAIN before THEN before ELSE S.edges
  IN  EnqueueAll(S, EffectJobsOfEdge(S, e) \o <<Job("edges", "")>>
                    \o CalcJobsFull(S, GroupMates(all, e) \ {e}))

TriggerEdgeFlag(S, e) == EnqueueAll(S, LineJobsOfEdge(S, e))

\* configs.edge.type or scale.value changes
TriggerGeometryInput(S) == EnqueueAll(S, CalcJobsFull(S, DOMAIN S.edgeStates))

\* ---- node states (createNodeState, 329-373)

\* a cached scalar
Val(v) == [val |-> v]

NewNodeState(selected, hovered) ==
  [selected |-> selected, hovered |-> hovered,
   shape |-> Undefined, staticShape |-> Undefined, label |-> Undefined,
   labelText |-> Undefined, draggable |-> Undefined, selectable |-> Undefined]

NodeFields == {"shape", "staticShape", "label", "labelText", "draggable", "selectable"}

\* what the getter of a computed of node state `id` returns: the previous
\* value (the cache) if the node is missing
NodeGetter(S, id, field) ==
  LET state  == S.nodeStates[id]
      node   == Lookup(S.nodes, id)
      config == StConfigs(S).node
      label  == IF node = Undefined THEN state.label ELSE ConfigValues(config.label, node)
  IN  CASE field = "shape" ->
             IF node = Undefined THEN state.shape
             ELSE GetNodeShape(node, state.selected, state.hovered, config)
        [] field = "staticShape" ->
             IF node = Undefined THEN state.staticShape
             ELSE GetNodeStaticShape(node, state.selected, config)
        [] field = "label" -> label
        [] field = "labelText" ->
             IF config.label.text.fn
             THEN IF label = Undefined THEN JsTypeError ELSE Val(label.text)
             ELSE IF node = Undefined THEN state.labelText
             ELSE IF label.text \in DOMAIN node THEN Val(node[label.text]) ELSE Val("")
        [] field = "draggable" ->
             IF node = Undefined THEN state.draggable
             ELSE Val(ConfigValue(config.draggable, node))
        [] OTHER ->
             IF node = Undefined THEN state.selectable
             ELSE Val(ConfigValue(config.selectable, node))

\* a read of the computed: the value is cached (labelText evaluates label)
ReadNodeComputed(S, id, field) ==
  LET v == NodeGetter(S, id, field)
      S1 == IF field = "labelText"
            THEN [S EXCEPT !.nodeStates[id].label = NodeGetter(S, id, "label")]
            ELSE S
  IN  IF v = JsTypeError THEN S1
      ELSE [S1 EXCEPT !.nodeStates[id] = Put(@, field, v)]

\* the variant that also gives the node a position
CreateNodeStatePlacing(S, id, selected, hovered) ==
  TriggerNodeStateKey([S EXCEPT !.nodeStates = Put(@, id, NewNodeState(selected, hovered)),
                                !.layouts = Put(@, id, [x |-> 0, y |-> 0])],
                      id)

\* createNodeState: states[id] = { selected, hovered } and the computeds
CreateNodeState(S, id, selected, hovered) ==
  TriggerNodeStateKey([S EXCEPT !.nodeStates = Put(@, id, NewNodeState(selected, hovered))],
                      id)

\* ---- the marker registry (composables/marker: makeMarker, clearMarker)

\* the handle of a marker style: one per distinct style
MarkerId(marker, isSource, strokeColor) ==
  [type |-> marker.type, width |-> marker.width, height |-> marker.height,
   units |-> marker.units, isSource |-> isSource,
   color |-> IF marker.color = Null THEN [c |-> strokeColor] ELSE [c |-> marker.color]]

ClearMarker(M, id) ==
  IF id = Undefined \/ id \notin DOMAIN M THEN M
  ELSE IF M[id] <= 1 THEN Del(M, id) ELSE Put(M, id, M[id] - 1)

\* makeMarker: [markers |-> the registry after the call, id |-> the handle]
MakeMarker(M, marker, isSource, previousId, strokeColor) ==
  IF marker.type = "none"
  THEN [markers |-> ClearMarker(M, previousId), id |-> Undefined]
  ELSE LET id == MarkerId(marker, isSource, strokeColor)
       IN  IF id = previousId THEN [markers |-> M, id |-> id]
           ELSE [markers |-> ClearMarker(Put(M, id, IF id \in DOMAIN M THEN M[id] + 1 ELSE 1),
                                         previousId),
                 id |-> id]

\* ---- edge states (createEdgeState, 383-538)

\* nodeStates[n]?.staticShape as the first effect reads it
StaticShapeOf(S, n) ==
  IF n \in DOMAIN S.nodeStates THEN NodeGetter(S, n, "staticShape") ELSE Undefined

\* the first watchEffect (425-514) of edge state e runs
CalcEffect(S, e, reversed) ==
  LET state  == S.edgeStates[e]
      edge   == Lookup(S.edges, e)
      config == StConfigs(S).edge
  IN  IF edge = Undefined
      THEN [S EXCEPT !.edgeStates[e].calcDeps = "edge", !.edgeStates[e].ends = {}]
      ELSE
        LET source == Lookup(S.layouts, edge.source)
            target == Lookup(S.layouts, edge.target)
            S1 == IF edge.source \in DOMAIN S.nodeStates
                  THEN ReadNodeComputed(S, edge.source, "staticShape") ELSE S
            S2 == IF edge.target \in DOMAIN S1.nodeStates
                  THEN ReadNodeComputed(S1, edge.target, "staticShape") ELSE S1
            sourceShape == StaticShapeOf(S, edge.source)
            targetShape == StaticShapeOf(S, edge.target)
            stopped == source = Undefined \/ target = Undefined
                       \/ sourceShape = Undefined \/ targetShape = Undefined
            l == LineGetter(edge, state.selected, state.hovered, config)
            next == CalcEdgeGeometry(state, edge, source, target, sourceShape, targetShape,
                      EdgeLayoutPoint(S.edges, S.edgeKeys, e, config.gap),
                      IsEdgeSummarized(S.edges, S.edgeKeys, e, config.summarize),
                      S.scale, l, config, reversed)
        IN  [S2 EXCEPT !.edgeStates[e] =
               [next EXCEPT !.calcDeps = IF stopped THEN "inputs" ELSE "full",
                            !.ends = {edge.source, edge.target},
                            !.line = IF stopped THEN state.line ELSE l,
                            !.computed = @ \/ ~stopped]]

\* the second watchEffect (516-530) of edge state e runs
MarkerEffect(S, e) ==
  LET state  == S.edgeStates[e]
      edge   == Lookup(S.edges, e)
      config == StConfigs(S).edge
  IN  IF edge = Undefined
      THEN [S EXCEPT !.edgeStates[e].markerDeps = "edge"]
      ELSE
        LET l  == LineGetter(edge, state.selected, state.hovered, config)
            m1 == MakeMarker(S.markers, l.source, TRUE, state.sourceMarkerId, l.stroke.color)
            m2 == MakeMarker(m1.markers, l.target, FALSE, state.targetMarkerId, l.stroke.color)
        IN  [S EXCEPT !.markers = m2.markers,
                      !.edgeStates[e].line = l,
                      !.edgeStates[e].sourceMarkerId = m1.id,
                      !.edgeStates[e].targetMarkerId = m2.id,
                      !.edgeStates[e].markerDeps = "full"]

\* what is known of the stopWatchHandle of a record: the calls of it, whether
\* the edge was in edges.value when it was called, and whether both effects
\* were stopped when the record was deleted
NotDisposed == [calls |-> 0, inTopology |-> FALSE, stopped |-> FALSE]

\* createEdgeState: the record, then both effects run at once
CreateEdgeState(S, id, selected, reversed) ==
  IF Lookup(S.edges, id) = Undefined THEN S
  ELSE LET S1 == [S EXCEPT !.edgeStates = Put(@, id, NewEdgeState(selected)),
                           !.disposals = Put(@, id, NotDisposed)]
       IN  MarkerEffect(CalcEffect(S1, id, reversed), id)

\* stopWatchHandle (532-537) of edge state e
StopWatchHandle(S, e) ==
  LET state == S.edgeStates[e]
  IN  [S EXCEPT !.edgeStates[e].calcActive = FALSE,
                !.edgeStates[e].markerActive = FALSE,
                !.markers = ClearMarker(ClearMarker(@, state.sourceMarkerId),
                                        state.targetMarkerId),
                !.disposals[e] = [@ EXCEPT !.calls = @ + 1,
                                           !.inTopology = e \in DOMAIN S.edges]]

\* ---- the watchers of provideStates

\* `if (state && state.selected != v) state.selected = v` and its like
SetNodeFlag(S, id, flag, v) ==
  IF id \in DOMAIN S.nodeStates /\ S.nodeStates[id][flag] # v
  THEN LET S1 == [S EXCEPT !.nodeStates[id] = Put(@, flag, v)]
       IN  IF flag = "selected" THEN TriggerNodeSelected(S1, id) ELSE S1
  ELSE S

SetEdgeFlag(S, id, flag, v) ==
  IF id \in DOMAIN S.edgeStates /\ S.edgeStates[id][flag] # v
  THEN TriggerEdgeFlag([S EXCEPT !.edgeStates[id] = Put(@, flag, v)], id)
  ELSE S

RECURSIVE SetFlags(_, _, _, _, _)
SetFlags(S, kind, flag, ids, v) ==
  IF ids = {} THEN S
  ELSE LET id == CHOOSE x \in ids : TRUE
           S1 == IF kind = "node" THEN SetNodeFlag(S, id, flag, v)
                 ELSE SetEdgeFlag(S, id, flag, v)
       IN  SetFlags(S1, kind, flag, ids \ {id}, v)

\* the four watchers of the selected/hovered sets (135-166, 219-256): `key`
\* names the set, `kind` and `flag` the states and the flag they maintain
WatchFlags(S, key, kind, flag) ==
  LET current == S[key]
      prev    == S.oldValues[key]
      S1 == SetFlags(S, kind, flag, current \ prev, TRUE)
      S2 == SetFlags(S1, kind, flag, prev \ current, FALSE)
  IN  [S2 EXCEPT !.oldValues = Put(@, key, current)]

\* selectedNodes.delete(nodeId) and its like (184-185, 281-282)
DropFromSet(S, key, id) ==
  IF id \in S[key] THEN Enqueue([S EXCEPT ![key] = @ \ {id}], Job(key, "")) ELSE S

\* delete positions[nodeId] (183)
DeletePosition(S, nodeId) ==
  IF nodeId \in DOMAIN S.layouts
  THEN TriggerLayoutKey([S EXCEPT !.layouts = Del(@, nodeId)], nodeId)
  ELSE S

\* delete nodeStates[nodeId] (186)
DeleteNodeState(S, nodeId) ==
  IF nodeId \in DOMAIN S.nodeStates
  THEN TriggerNodeStateKey([S EXCEPT !.nodeStates = Del(@, nodeId)], nodeId)
  ELSE S

\* the variant that leaves the id of the removed node in hoveredNodes
NodeRemovedStillHovered(S, nodeId) ==
  DeleteNodeState(DropFromSet(DeletePosition(S, nodeId), "selectedNodes", nodeId), nodeId)

\* "node removed" (182-186)
NodeRemoved(S, nodeId) ==
  DeleteNodeState(DropFromSet(DropFromSet(DeletePosition(S, nodeId),
                                          "selectedNodes", nodeId),
                              "hoveredNodes", nodeId),
                  nodeId)

RECURSIVE NodesAdded(_, _)
NodesAdded(S, ids) ==
  IF ids = {} THEN S
  ELSE LET id == CHOOSE x \in ids : TRUE
       IN  NodesAdded(CreateNodeState(S, id, FALSE, FALSE), ids \ {id})

RECURSIVE NodesRemoved(_, _)
NodesRemoved(S, ids) ==
  IF ids = {} THEN S
  ELSE LET id == CHOOSE x \in ids : TRUE
       IN  NodesRemoved(NodeRemoved(S, id), ids \ {id})

\* the variant that never handles a removed node
WatchNodesAddOnly(S) ==
  [NodesAdded(S, DOMAIN S.nodes \ S.oldValues.nodes)
     EXCEPT !.oldValues.nodes = DOMAIN S.nodes]

\* "handle increase/decrease nodes" (169-189)
WatchNodes(S) ==
  LET idSet == DOMAIN S.nodes
      prev  == S.oldValues.nodes
      S1 == NodesAdded(S, idSet \ prev)
      S2 == NodesRemoved(S1, prev \ idSet)
  IN  [S2 EXCEPT !.oldValues.nodes = idSet]

\* the variant that deletes the record without calling its stopWatchHandle
EdgeRemovedNotStopped(S, edgeId) ==
  [S EXCEPT !.selectedEdges = @ \ {edgeId}, !.hoveredEdges = @ \ {edgeId},
            !.edgeStates = Del(@, edgeId)]

\* the record of edgeId is deleted (284)
DeleteEdgeState(S, edgeId) ==
  [S EXCEPT !.edgeStates = Del(@, edgeId),
            !.disposals[edgeId].stopped = /\ ~S.edgeStates[edgeId].calcActive
                                          /\ ~S.edgeStates[edgeId].markerActive]

\* "remove edge" (280-284)
EdgeRemoved(S, edgeId) ==
  DeleteEdgeState(StopWatchHandle(DropFromSet(DropFromSet(S, "selectedEdges", edgeId),
                                              "hoveredEdges", edgeId),
                                  edgeId),
                  edgeId)

RECURSIVE EdgesAdded(_, _, _)
EdgesAdded(S, ids, reversed) ==
  IF ids = <<>> THEN S
  ELSE EdgesAdded(CreateEdgeState(S, Head(ids), FALSE, reversed[Head(ids)]),
                  Tail(ids), reversed)

RECURSIVE EdgesRemoved(_, _)
EdgesRemoved(S, ids) ==
  IF ids = {} THEN S
  ELSE LET id == CHOOSE x \in ids : TRUE
       IN  EdgesRemoved(EdgeRemoved(S, id), ids \ {id})

\* "handle increase/decrease edges" (259-287)
WatchEdges(S, reversed) ==
  LET idSet == {S.edgeKeys[i] : i \in 1..Len(S.edgeKeys)}
      prev  == S.oldValues.edges
      S1 == EdgesAdded(S, SelectSeq(S.edgeKeys, LAMBDA e : e \notin prev), reversed)
      S2 == EdgesRemoved(S1, prev \ idSet)
  IN  [S2 EXCEPT !.oldValues.edges = idSet]

\* a job of an effect whose edge state is gone or stopped does nothing
RunCalcJob(S, e, reversed) ==
  IF e \in DOMAIN S.edgeStates /\ S.edgeStates[e].calcActive
  THEN CalcEffect(S, e, reversed) ELSE S

RunMarkerJob(S, e) ==
  IF e \in DOMAIN S.edgeStates /\ S.edgeStates[e].markerActive
  THEN MarkerEffect(S, e) ELSE S

\* ---- the model's universe of the state layer

MaxOps == 2          \* external operations in one run

StNodes     == {"A", "B"}
StEdgeIds   == {"e1", "e2"}
StEdgeDefs  == [e1 |-> EdgeObj("A", "B"), e2 |-> EdgeObj("B", "A")]
\* the positions the layout handler gives a node
StPositions == [A |-> {[x |-> 0, y |-> 0]}, B |-> {[x |-> 6, y |-> 0], [x |-> 6, y |-> 8]}]
\* the entities the user selects and points at
StPicked    == [node |-> "A", edge |-> "e1"]

Op(op, id) == [op |-> op, id |-> id, present |-> TRUE, threw |-> FALSE, kept |-> TRUE]

\* provideStates has run (130-132, 198-210) on the given inputs
ProvidedStore(ns, keys, pos, type, fns, reversed) ==
  LET S0 == [nodes |-> [n \in ns |-> NodeObj(n)],
             edges |-> [e \in {keys[i] : i \in 1..Len(keys)} |-> StEdgeDefs[e]],
             edgeKeys |-> keys, layouts |-> pos,
             selectedNodes |-> {}, selectedEdges |-> {},
             hoveredNodes |-> {}, hoveredEdges |-> {},
             edgeType |-> type, fnStyle |-> fns, scale |-> 1,
             nodeStates |-> <<>>, edgeStates |-> <<>>, markers |-> <<>>,
             activeCbs |-> <<>>, pendingCbs |-> <<>>,
             oldValues |-> [selectedNodes |-> {}, hoveredNodes |-> {},
                            selectedEdges |-> {}, hoveredEdges |-> {},
                            nodes |-> ns, edges |-> {keys[i] : i \in 1..Len(keys)}],
             disposals |-> <<>>]
      S1 == [S0 EXCEPT !.nodeStates = [n \in ns |-> NewNodeState(FALSE, FALSE)]]
  IN  EdgesAdded(S1, keys, reversed)

InitSt ==
  /\ \E full \in BOOLEAN, type \in {"straight", "curve"}, fns \in BOOLEAN,
        reversed \in [StEdgeIds -> BOOLEAN] :
       \E S \in {ProvidedStore(IF full THEN StNodes ELSE {},
                               IF full THEN <<"e1", "e2">> ELSE <<>>,
                               [n \in IF full THEN StNodes ELSE {} |->
                                  [x |-> IF n = "A" THEN 0 ELSE 6, y |-> 0]],
                               type, fns, reversed)} :
           /\ nodes = S.nodes /\ edgeMap = S.edges /\ edgeKeys = S.edgeKeys
           /\ layouts = S.layouts
           /\ selectedNodes = {} /\ selectedEdges = {}
           /\ hoveredNodes = {} /\ hoveredEdges = {}
           /\ edgeType = type /\ styleFns = fns /\ scale = 1
           /\ nodeStates = S.nodeStates /\ edgeStates = S.edgeStates
           /\ markers = S.markers
           /\ activeCbs = <<>> /\ pendingCbs = <<>>
           /\ oldValues = S.oldValues
           /\ disposals = S.disposals
  /\ lastOp = Op("init", "")
  /\ opCount = 0

IdleSt ==
  /\ nodes = <<>> /\ edgeMap = <<>> /\ edgeKeys = <<>> /\ layouts = <<>>
  /\ selectedNodes = {} /\ selectedEdges = {} /\ hoveredNodes = {} /\ hoveredEdges = {}
  /\ edgeType = "straight" /\ styleFns = FALSE /\ scale = 1
  /\ nodeStates = <<>> /\ edgeStates = <<>> /\ markers = <<>>
  /\ activeCbs = <<>> /\ pendingCbs = <<>> /\ oldValues = <<>>
  /\ disposals = <<>>
  /\ lastOp = Op("idle", "") /\ opCount = 0

\* ---- operations of the surrounding application: they run between flushes

External == activeCbs = <<>> /\ opCount < MaxOps

ByExternal(S, op, id) ==
  /\ Commit(S)
  /\ lastOp' = Op(op, id)
  /\ opCount' = opCount + 1

AddNode ==
  /\ External
  /\ \E n \in StNodes \ DOMAIN nodes :
       ByExternal(TriggerNodesKey([Store EXCEPT !.nodes = Put(@, n, NodeObj(n))], n),
                  "addNode", n)

RemoveNode ==
  /\ External
  /\ \E n \in DOMAIN nodes :
       ByExternal(TriggerNodesKey([Store EXCEPT !.nodes = Del(@, n)], n), "removeNode", n)

\* the layout handler places or moves a node
SetPosition ==
  /\ External
  /\ \E n \in DOMAIN nodes : \E p \in StPositions[n] :
       /\ Lookup(layouts, n) # p
       /\ ByExternal(TriggerLayoutKey([Store EXCEPT !.layouts = Put(@, n, p)], n),
                     "setPosition", n)

AddEdge ==
  /\ External
  /\ \E e \in StEdgeIds \ DOMAIN edgeMap :
       ByExternal(TriggerEdgesKey([Store EXCEPT !.edges = Put(@, e, StEdgeDefs[e]),
                                                !.edgeKeys = Append(@, e)],
                                  e, edgeMap),
                  "addEdge", e)

RemoveEdge ==
  /\ External
  /\ \E e \in DOMAIN edgeMap :
       ByExternal(TriggerEdgesKey([Store EXCEPT !.edges = Del(@, e),
                                                !.edgeKeys = SelectSeq(@, LAMBDA k : k # e)],
                                  e, edgeMap),
                  "removeEdge", e)

\* a reactive set gains or loses the picked entity
Toggle(key, id) ==
  ByExternal(Enqueue([Store EXCEPT ![key] = IF id \in @ THEN @ \ {id} ELSE @ \cup {id}],
                     Job(key, "")),
             key, id)

ToggleSelectedNode == External /\ Toggle("selectedNodes", StPicked.node)
ToggleHoveredNode  == External /\ Toggle("hoveredNodes", StPicked.node)
ToggleSelectedEdge == External /\ Toggle("selectedEdges", StPicked.edge)
ToggleHoveredEdge  == External /\ Toggle("hoveredEdges", StPicked.edge)

SetEdgeType ==
  /\ External
  /\ \E t \in {"straight", "curve"} \ {edgeType} :
       ByExternal(TriggerGeometryInput([Store EXCEPT !.edgeType = t]), "setEdgeType", t)

SetScale ==
  /\ External
  /\ \E k \in (1..MaxScale) \ {scale} :
       ByExternal(TriggerGeometryInput([Store EXCEPT !.scale = k]), "setScale", "")

\* ---- a consumer reads a computed of a state record (it may do so before
\* the watchers have run)

ReadNode ==
  /\ External
  /\ \E n \in DOMAIN nodeStates, field \in NodeFields :
       LET v == NodeGetter(Store, n, field)
       IN  /\ Commit(ReadNodeComputed(Store, n, field))
           /\ lastOp' = [op |-> "readNode", id |-> n, present |-> n \in DOMAIN nodes,
                         threw |-> v = JsTypeError, kept |-> v = nodeStates[n][field]]
  /\ opCount' = opCount + 1

\* what the getter of `line` / `selectable` of edge state e returns
EdgeGetter(S, e, field) ==
  IF field = "line"
  THEN LineGetter(Lookup(S.edges, e), S.edgeStates[e].selected, S.edgeStates[e].hovered,
                  StConfigs(S).edge)
  ELSE EdgeSelectableGetter(Lookup(S.edges, e), StConfigs(S).edge)

ReadEdge ==
  /\ External
  /\ \E e \in DOMAIN edgeStates, field \in {"line", "selectable"} :
       LET v == EdgeGetter(Store, e, field)
       IN  /\ Commit(IF v = JsTypeError THEN Store
                     ELSE [Store EXCEPT !.edgeStates[e] = Put(@, field, v)])
           /\ lastOp' = [op |-> "readEdge", id |-> e, present |-> e \in DOMAIN edgeMap,
                         threw |-> v = JsTypeError, kept |-> v = edgeStates[e][field]]
  /\ opCount' = opCount + 1

\* ---- the path component renders.  Rendering is a job of the main queue,
\* which the scheduler takes up when no watcher or effect is left to run;
\* calcPathPoints (marker-head-angle.vue 123-136, 178) reads edgeStates[id]
\* of an edge of a path that pathList let through, and throws when it is
\* not there.
CalcPathPointsReads ==
  /\ activeCbs = <<>> /\ pendingCbs = <<>>
  /\ \E e \in DOMAIN edgeMap :
       /\ Commit(Store)
       /\ lastOp' = [op |-> "calcPathPoints", id |-> e,
                     present |-> e \in DOMAIN edgeStates,
                     threw |-> e \notin DOMAIN edgeStates, kept |-> TRUE]
  /\ UNCHANGED opCount

\* ---- the flush: the queued jobs run one after the other, to the end

\* the store when the flush takes up its next job: a new flush starts with
\* the pending jobs
Flushing ==
  IF activeCbs = <<>>
  THEN [Store EXCEPT !.activeCbs = pendingCbs, !.pendingCbs = <<>>]
  ELSE Store

NextJob == Head(Flushing.activeCbs)

Running(w) == Flushing.activeCbs # <<>> /\ NextJob.w = w

\* the job is done; jobs queued meanwhile make the next round of the flush
Finish(S) ==
  IF Tail(S.activeCbs) = <<>>
  THEN [S EXCEPT !.activeCbs = S.pendingCbs, !.pendingCbs = <<>>]
  ELSE [S EXCEPT !.activeCbs = Tail(@)]

ByJob(S) ==
  /\ Commit(Finish(S))
  /\ lastOp' = Op(NextJob.w, NextJob.id)
  /\ UNCHANGED opCount

RunWatchSelectedNodes ==
  Running("selectedNodes") /\ ByJob(WatchFlags(Flushing, "selectedNodes", "node", "selected"))

RunWatchHoveredNodes ==
  Running("hoveredNodes") /\ ByJob(WatchFlags(Flushing, "hoveredNodes", "node", "hovered"))

RunWatchNodes == Running("nodes") /\ ByJob(WatchNodes(Flushing))

RunWatchSelectedEdges ==
  Running("selectedEdges") /\ ByJob(WatchFlags(Flushing, "selectedEdges", "edge", "selected"))

RunWatchHoveredEdges ==
  Running("hoveredEdges") /\ ByJob(WatchFlags(Flushing, "hoveredEdges", "edge", "hovered"))

RunWatchEdges ==
  /\ Running("edges")
  /\ \E reversed \in [StEdgeIds -> BOOLEAN] : ByJob(WatchEdges(Flushing, reversed))

RunCalcEffect ==
  /\ Running("calc")
  /\ \E reversed \in BOOLEAN : ByJob(RunCalcJob(Flushing, NextJob.id, reversed))

RunMarkerEffect == Running("marker") /\ ByJob(RunMarkerJob(Flushing, NextJob.id))

NextSt ==
  \/ AddNode /\ UNCHANGED <<varsPaths, varsDir, varsPts, varsGeo, varsSum, varsTr>>
  \/ RemoveNode /\ UNCHANGED <<varsPaths, varsDir, varsPts, varsGeo, varsSum, varsTr>>
  \/ SetPosition /\ UNCHANGED <<varsPaths, varsDir, varsPts, varsGeo, varsSum, varsTr>>
  \/ AddEdge /\ UNCHANGED <<varsPaths, varsDir, varsPts, varsGeo, varsSum, varsTr>>
  \/ RemoveEdge /\ UNCHANGED <<varsPaths, varsDir, varsPts, varsGeo, varsSum, varsTr>>
  \/ ToggleSelectedNode /\ UNCHANGED <<varsPaths, varsDir, varsPts, varsGeo, varsSum, varsTr>>
  \/ ToggleHoveredNode /\ UNCHANGED <<varsPaths, varsDir, varsPts, varsGeo, varsSum, varsTr>>
  \/ ToggleSelectedEdge /\ UNCHANGED <<varsPaths, varsDir, varsPts, varsGeo, varsSum, varsTr>>
  \/ ToggleHoveredEdge /\ UNCHANGED <<varsPaths, varsDir, varsPts, varsGeo, varsSum, varsTr>>
  \/ SetEdgeType /\ UNCHANGED <<varsPaths, varsDir, varsPts, varsGeo, varsSum, varsTr>>
  \/ SetScale /\ UNCHANGED <<varsPaths, varsDir, varsPts, varsGeo, varsSum, varsTr>>
  \/ ReadNode /\ UNCHANGED <<varsPaths, varsDir, varsPts, varsGeo, varsSum, varsTr>>
  \/ ReadEdge /\ UNCHANGED <<varsPaths, varsDir, varsPts, varsGeo, varsSum, varsTr>>
  \/ RunWatchSelectedNodes /\ UNCHANGED <<varsPaths, varsDir, varsPts, varsGeo, varsSum, varsTr>>
  \/ RunWatchHoveredNodes /\ UNCHANGED <<varsPaths, varsDir, varsPts, varsGeo, varsSum, varsTr>>
  \/ RunWatchNodes /\ UNCHANGED <<varsPaths, varsDir, varsPts, varsGeo, varsSum, varsTr>>
  \/ RunWatchSelectedEdges /\ UNCHANGED <<varsPaths, varsDir, varsPts, varsGeo, varsSum, varsTr>>
  \/ RunWatchHoveredEdges /\ UNCHANGED <<varsPaths, varsDir, varsPts, varsGeo, varsSum, varsTr>>
  \/ RunWatchEdges /\ UNCHANGED <<varsPaths, varsDir, varsPts, varsGeo, varsSum, varsTr>>
  \/ RunCalcEffect /\ UNCHANGED <<varsPaths, varsDir, varsPts, varsGeo, varsSum, varsTr>>
  \/ RunMarkerEffect /\ UNCHANGED <<varsPaths, varsDir, varsPts, varsGeo, varsSum, varsTr>>
  \/ CalcPathPointsReads /\ UNCHANGED <<varsPaths, varsDir, varsPts, varsGeo, varsSum, varsTr>>

-----------------------------------------------------------------------------
\* The geometry of one edge on its own: the first watchEffect of
\* createEdgeState (state.ts 425-514) run on given inputs, and run again when
\* configs.edge.type changes.

MaxGroup == 3    \* the edges of the group of the edge

\* the group of the edge: up to MaxGroup edges between A and B, the even
\* ones from B to A; the id of an edge is its place in the edges map
GeoEdges == [i \in 1..MaxGroup |-> IF i % 2 = 1 THEN EdgeObj("A", "B") ELSE EdgeObj("B", "A")]
GeoKeys  == [i \in 1..MaxGroup |-> i]
GeoShapes ==
  {[type |-> "circle", radius |-> 2, width |-> 4, height |-> 4],
   [type |-> "rect", radius |-> 2, width |-> 8, height |-> 6]}

\* the units of a marker (MarkerUnits)
GeoUnits == {"strokeWidth", "userSpaceOnUse"}

\* the inputs of the effect
GeoInputs ==
  [size : 1..MaxGroup, slot : 1..MaxGroup, summarized : BOOLEAN,
   target : {[x |-> 6, y |-> 0], [x |-> 0, y |-> 8]},
   sourceShape : GeoShapes, targetShape : GeoShapes,
   s : 1..MaxScale,
   margin : {Null, Undefined, Num(0), Num(1)},
   sourceMarker : {"none", "arrow"}, targetMarker : {"none", "arrow"},
   sourceUnits : GeoUnits, targetUnits : GeoUnits,
   reversed : BOOLEAN]

\* configs.edge with the margin, the marker types and the marker units of the
\* inputs
GeoConfig(in, type) ==
  [Configs(FALSE, type, in.margin, in.sourceMarker, in.targetMarker).edge
     EXCEPT !.marker.source.units = Lit(in.sourceUnits),
            !.marker.target.units = Lit(in.targetUnits)]

GeoEdgeId(in) == GeoKeys[in.slot]

\* edgeLayoutPoints[id] of the edge in its group
GeoLayoutPoint(in) ==
  EdgeLayoutPoint([e \in {GeoKeys[i] : i \in 1..in.size} |-> GeoEdges[e]],
                  SubSeq(GeoKeys, 1, in.size), GeoEdgeId(in), 2)

\* the record the effect leaves when it runs on the inputs under `type`
GeoEffect(prev, in, type) ==
  EdgeGeometry(prev, [x |-> 0, y |-> 0], in.target, in.sourceShape, in.targetShape,
               GeoLayoutPoint(in), in.summarized, in.s,
               LineGetter(GeoEdges[GeoEdgeId(in)], FALSE, FALSE, GeoConfig(in, type)),
               GeoConfig(in, type), in.reversed)

\* the calls of V.calculateCircleCenterAndRadiusBy3Points the effect makes when
\* it runs on the inputs under `type`: none for a straight edge (490-498), the
\* call of calculateCurvePositionAndState for a curve (499-509)
GeoCircleCalls(in, type) ==
  IF type = "straight" THEN <<>>
  ELSE CurveCircleCalls(
         PositionsToLinePosition([x |-> 0, y |-> 0], in.target),
         CalculateEdgeShiftedPosition(GeoLayoutPoint(in), in.summarized,
                                      [x |-> 0, y |-> 0], in.target, in.s),
         GeoLayoutPoint(in).groupWidth \div 2 - GeoLayoutPoint(in).pointInGroup)

\* createEdgeState has made the record (397-407); the effect is about to run
InitGeo ==
  /\ geoIn \in {in \in GeoInputs : in.slot <= in.size}
  /\ geoType \in {"straight", "curve"}
  /\ geoState = NewEdgeState(FALSE)
  /\ geoSeen = [straight |-> Undefined, curve |-> Undefined]
  /\ geoCircle = <<>>
  /\ geoPc = "dirty"

IdleGeo ==
  /\ geoIn = <<>> /\ geoType = "straight" /\ geoState = <<>>
  /\ geoSeen = <<>> /\ geoCircle = <<>> /\ geoPc = "idle"

\* the effect runs
GeoRunEffect ==
  /\ geoPc = "dirty"
  /\ geoState' = GeoEffect(geoState, geoIn, geoType)
  /\ geoSeen' = [geoSeen EXCEPT ![geoType] =
                   [origin |-> geoState'.origin, position |-> geoState'.position,
                    curve |-> geoState'.curve]]
  /\ geoCircle' = GeoCircleCalls(geoIn, geoType)
  /\ geoPc' = "clean"
  /\ UNCHANGED <<geoIn, geoType>>

\* configs.edge.type changes: the effect is queued
GeoSetType ==
  /\ geoPc = "clean"
  /\ geoType' = IF geoType = "straight" THEN "curve" ELSE "straight"
  /\ geoPc' = "dirty"
  /\ UNCHANGED <<geoIn, geoState, geoSeen, geoCircle>>

NextGeo ==
  \/ GeoRunEffect /\ UNCHANGED <<varsPaths, varsDir, varsPts, varsSt, varsSum, varsTr>>
  \/ GeoSetType /\ UNCHANGED <<varsPaths, varsDir, varsPts, varsSt, varsSum, varsTr>>

-----------------------------------------------------------------------------
\* The summarized edge states: the watcher of edgeGroupStates.edgeGroups
\* (state.ts 212-216) and createSummarizedEdgeStates (637-657).  The edge
\* groups themselves (common/edge-group) are not part of the sources at hand:
\* a group is the set of the edges that join one unordered node pair, and it
\* is summarized when it has at least configs.edge.summarize edges.

MaxSumOps == 3     \* changes of the edges and of the configuration in one run

SumEdgeDefs == [e1 |-> EdgeObj("A", "B"), e2 |-> EdgeObj("B", "A"),
                e3 |-> EdgeObj("B", "C"), e4 |-> EdgeObj("A", "C")]

GroupId(edge) == {edge.source, edge.target}

\* edgeGroupStates.edgeGroups: group id -> { edges, summarize }
EdgeGroups(es, min) ==
  [g \in {GroupId(SumEdgeDefs[e]) : e \in es} |->
     [edges |-> {e \in es : GroupId(SumEdgeDefs[e]) = g},
      summarize |-> Cardinality({e \in es : GroupId(SumEdgeDefs[e]) = g}) >= min]]

\* a summarized state (646-649): its stroke is a computed that has not been
\* read; `born` tells the run of the watcher that made the record
NewSummarizedState(run) == [stroke |-> Undefined, born |-> run]

\* the variant that makes a new record for every summarized group
CreateSummarizedEdgeStatesAnew(states, groups, run) ==
  [id \in {k \in DOMAIN groups : groups[k].summarize} |-> NewSummarizedState(run)]

\* createSummarizedEdgeStates (637-657)
CreateSummarizedEdgeStates(states, groups, run) ==
  LET created == {id \in DOMAIN groups : groups[id].summarize /\ id \notin DOMAIN states}
      added   == [id \in DOMAIN states \cup created |->
                    IF id \in created THEN NewSummarizedState(run) ELSE states[id]]
  IN  [id \in {k \in DOMAIN added : k \in DOMAIN groups /\ groups[k].summarize} |->
         added[id]]

\* provideStates has run: the watcher is immediate (215)
InitSum ==
  /\ sumEdges \in SUBSET DOMAIN SumEdgeDefs
  /\ sumMin \in 1..3
  /\ summarizedEdgeStates = CreateSummarizedEdgeStates(<<>>, EdgeGroups(sumEdges, sumMin), 0)
  /\ sumPrev = <<>>
  /\ sumPending = FALSE
  /\ sumRuns = 1
  /\ sumOps = 0

IdleSum ==
  /\ sumEdges = {} /\ sumMin = 0 /\ summarizedEdgeStates = <<>> /\ sumPrev = <<>>
  /\ sumPending = FALSE /\ sumRuns = 0 /\ sumOps = 0

\* the edges or the configuration change; the watcher is queued when the
\* edge groups are no longer what they were
SumChange(es, min) ==
  /\ sumOps < MaxSumOps
  /\ sumEdges' = es
  /\ sumMin' = min
  /\ sumPending' = (sumPending \/ EdgeGroups(es, min) # EdgeGroups(sumEdges, sumMin))
  /\ sumOps' = sumOps + 1
  /\ UNCHANGED <<summarizedEdgeStates, sumPrev, sumRuns>>

SumAddEdge == \E e \in DOMAIN SumEdgeDefs \ sumEdges : SumChange(sumEdges \cup {e}, sumMin)

SumRemoveEdge == \E e \in sumEdges : SumChange(sumEdges \ {e}, sumMin)

SumSetSummarize == \E min \in (1..3) \ {sumMin} : SumChange(sumEdges, min)

\* the watcher of the edge groups runs
SumRunWatch ==
  /\ sumPending
  /\ summarizedEdgeStates' =
       CreateSummarizedEdgeStates(summarizedEdgeStates, EdgeGroups(sumEdges, sumMin), sumRuns)
  /\ sumPrev' = summarizedEdgeStates
  /\ sumPending' = FALSE
  /\ sumRuns' = sumRuns + 1
  /\ UNCHANGED <<sumEdges, sumMin, sumOps>>

NextSum ==
  \/ SumAddEdge /\ UNCHANGED <<varsPaths, varsDir, varsPts, varsSt, varsGeo, varsTr>>
  \/ SumRemoveEdge /\ UNCHANGED <<varsPaths, varsDir, varsPts, varsSt, varsGeo, varsTr>>
  \/ SumSetSummarize /\ UNCHANGED <<varsPaths, varsDir, varsPts, varsSt, varsGeo, varsTr>>
  \/ SumRunWatch /\ UNCHANGED <<varsPaths, varsDir, varsPts, varsSt, varsGeo, varsTr>>

-----------------------------------------------------------------------------
\* Claims about the path list

\* every edge id of the path resolves to an edge of the edges map
AllEdgesKnown(path, edges) ==
  \A i \in 1..Len(path.edges) : path.edges[i] \in DOMAIN edges

\* the indices of the input paths whose edge ids all resolve
AcceptedIdx == {i \in 1..Len(paths) : AllEdgesKnown(paths[i], propsEdges)}

\* the k-th accepted index, in input order
NthAccepted(k) ==
  CHOOSE i \in AcceptedIdx : Cardinality({j \in AcceptedIdx : j <= i}) = k

\* C1: a path is in pathList iff every edge id of it resolves to an edge of
\* the edges map; a path with an unknown id is left out entirely, and the
\* accepted paths keep their input order and their full edge list.
C1_PathListAcceptsExactlyKnown ==
  plPc = "done" =>
    /\ Len(pathList) = Cardinality(AcceptedIdx)
    /\ \A k \in 1..Len(pathList) :
         LET p == paths[NthAccepted(k)]
         IN  /\ pathList[k].path = p
             /\ Len(pathList[k].edges) = Len(p.edges)
             /\ \A j \in 1..Len(p.edges) :
                  /\ pathList[k].edges[j].edgeId = p.edges[j]
                  /\ pathList[k].edges[j].edge = propsEdges[p.edges[j]]

\* a path naming a known and an unknown id was dropped, a later one was kept
C1_Witness ==
  /\ plPc = "done"
  /\ Len(paths) = 2
  /\ \E i, j \in 1..Len(paths[1].edges) :
       paths[1].edges[i] \in DOMAIN propsEdges /\ paths[1].edges[j] \notin DOMAIN propsEdges
  /\ Len(paths[2].edges) > 0
  /\ Len(pathList) = 1
  /\ pathList[1].path = paths[2]

-----------------------------------------------------------------------------
\* Claims about direction detection

\* the node where edge e is left / entered when traversed in direction d
ExitNode(e, d)  == IF d THEN e.edge.target ELSE e.edge.source
EntryNode(e, d) == IF d THEN e.edge.source ELSE e.edge.target

Continuous(edges, dirs) ==
  \A i \in 1..(Len(edges) - 1) :
    ExitNode(edges[i], dirs[i]) = EntryNode(edges[i + 1], dirs[i + 1])

\* some assignment of directions makes the chain a connected walk
Connectable(edges) ==
  \E dirs \in [1..Len(edges) -> BOOLEAN] : Continuous(edges, dirs)

\* C2: for every chain of n >= 2 edges that some assignment of directions
\* makes a connected walk, the detected directions make the path continuous.
C2_DetectedDirectionsContinuous ==
  (dirPc = "done" /\ Len(chain) >= 2 /\ Connectable(chain))
    => (Len(directions) = Len(chain) /\ Continuous(chain, directions))

\* the same, for chains of at most three edges (the lookahead of the code)
C2_ContinuousUpTo3 ==
  (dirPc = "done" /\ Len(chain) \in 2..3 /\ Connectable(chain))
    => (Len(directions) = Len(chain) /\ Continuous(chain, directions))

\* the first two edges of the chain join the same two nodes, and the third
\* edge has exactly one of the two for an end
ParallelPairThenBranch(edges) ==
  /\ Len(edges) >= 3
  /\ edges[1].edge.source # edges[1].edge.target
  /\ {edges[2].edge.source, edges[2].edge.target}
       = {edges[1].edge.source, edges[1].edge.target}
  /\ Cardinality({edges[3].edge.source, edges[3].edge.target}
                   \cap {edges[1].edge.source, edges[1].edge.target}) = 1

\* C18: in a chain of at least three edges whose first two edges join the
\* same two nodes A # B and whose third edge has exactly one of A, B for an
\* end, the second edge is traversed so that it ends at the node it shares
\* with the third edge, and the first edge so that it ends at the node where
\* the traversal of the second edge starts, however the three edges are
\* oriented.
C18_ParallelPairDirections ==
  (dirPc = "done" /\ ParallelPairThenBranch(chain)) =>
    /\ ExitNode(chain[2], directions[2]) \in {chain[3].edge.source, chain[3].edge.target}
    /\ ExitNode(chain[1], directions[1]) = EntryNode(chain[2], directions[2])

\* the first edge A->B and the second edge B->A are both traversed against
\* their stored orientation (B to A, then A to B) to reach the third edge at B
C18_Witness ==
  /\ dirPc = "done" /\ ParallelPairThenBranch(chain)
  /\ chain[1].edge = [source |-> "A", target |-> "B"]
  /\ chain[2].edge = [source |-> "B", target |-> "A"]
  /\ chain[3].edge = [source |-> "C", target |-> "B"]
  /\ directions[1] = FALSE /\ directions[2] = FALSE

-----------------------------------------------------------------------------
\* Claims about the path point sequence

\* C5: every element of the computed point sequence is a single point or an
\* array of exactly three points.
C5_ElementsArePointOrTriple ==
  ptPc = "done" =>
    \A i \in 1..Len(points) : points[i].arr => Len(points[i].v) = 3

\* the single edge of the path was resolved forward, and the loop never ran
SingleEdgeForward ==
  /\ Len(ptEdgePos) = 1
  /\ ptEdgePos[1].source = ptIn.edges[1].edge.source
  /\ ptEdgePos[1].target = ptIn.edges[1].edge.target
  /\ ptEdgePos[1].line = PtEdgeState(ptIn, ptIn.edges[1].edgeId).origin
  /\ ptI = 2

\* the start point followed by the end element
StartThenEnd ==
  /\ Len(points) = 2
  /\ ~points[1].arr
  /\ points[1].v[1].k \in {"lineSource", "movedFromLineSource", "circleAtSource", "lineTarget"}
  /\ IF ptEdgePos[1].curve # Undefined
     THEN /\ points[2].arr
          /\ Len(points[2].v) = 3
          /\ points[2].v[1] = Pt("control1", 1)
          /\ points[2].v[2] = Pt("control2", 1)
          /\ points[2].v[3].k \in {"lineTarget", "movedFromLineTarget"}
     ELSE /\ ~points[2].arr
          /\ points[2].v[1].k \in {"lineTarget", "circleAtTarget", "lineSource"}

\* C6 (as stated): for a path of one edge, whatever the margin and the end
\* type, the edge is traversed forward, no transit runs and the result is
\* exactly the start point and the end element.
C6_SingleEdgeTwoElements ==
  (ptPc = "done" /\ Len(ptIn.edges) = 1) => (SingleEdgeForward /\ StartThenEnd)

\* the margin reaches over the whole edge, seen from the start / the end:
\* written from the inputs of the call (d is the distance of the node centres)
MarginCoversFromStart ==
  LET e  == ptIn.edges[1].edge
      m  == ptIn.margin * ptIn.scale
      rs == GetNodeRadius(PtNodeShape(ptIn, e.source)) * ptIn.scale
      rt == GetNodeRadius(PtNodeShape(ptIn, e.target)) * ptIn.scale
      dx == PtPositions[e.target].x - PtPositions[e.source].x
      dy == PtPositions[e.target].y - PtPositions[e.source].y
      t  == m + (IF ptIn.end = "edgeOfNode" THEN rs ELSE 0) + rt
  IN  m > 0 /\ dx * dx + dy * dy <= t * t

MarginCoversFromEnd ==
  LET e  == ptIn.edges[1].edge
      m  == ptIn.margin * ptIn.scale
      rs == GetNodeRadius(PtNodeShape(ptIn, e.source)) * ptIn.scale
      rt == GetNodeRadius(PtNodeShape(ptIn, e.target)) * ptIn.scale
      dx == PtPositions[e.target].x - PtPositions[e.source].x
      dy == PtPositions[e.target].y - PtPositions[e.source].y
      t  == m + (IF ptIn.end = "edgeOfNode" THEN rt ELSE 0) + rs
  IN  m > 0 /\ dx * dx + dy * dy <= t * t

\* C6 (amended): for a path of one edge the edge is traversed forward and no
\* transit runs; the result is exactly the start point and the end element
\* when the margin overruns the edge at neither end.  When it overruns at the
\* start the start point is dropped (a curved edge keeps its first control
\* point in its place); when it overruns at the end the end element is dropped.
C6_SingleEdgeTwoElementsUnlessOverrun ==
  (ptPc = "done" /\ Len(ptIn.edges) = 1) =>
    /\ SingleEdgeForward
    /\ (~MarginCoversFromStart /\ ~MarginCoversFromEnd) => StartThenEnd
    /\ (MarginCoversFromStart /\ ~MarginCoversFromEnd) =>
         IF ptEdgePos[1].curve # Undefined
         THEN Len(points) = 2 /\ points[1] = PointElem(Pt("control1", 1)) /\ points[2].arr
         ELSE Len(points) = 1 /\ ~points[1].arr
    /\ (~MarginCoversFromStart /\ MarginCoversFromEnd) =>
         Len(points) = 1 /\ ~points[1].arr
    /\ (MarginCoversFromStart /\ MarginCoversFromEnd) =>
         IF ptEdgePos[1].curve # Undefined
         THEN points = <<PointElem(Pt("control1", 1))>>
         ELSE points = <<>>

\* a curved single edge with a margin and the end type edgeOfNode, not overrun
C6_Witness ==
  /\ ptPc = "done"
  /\ Len(ptIn.edges) = 1
  /\ ptIn.margin > 0
  /\ ptIn.end = "edgeOfNode"
  /\ ptEdgePos[1].curve # Undefined
  /\ ~MarginCoversFromStart /\ ~MarginCoversFromEnd
  /\ Len(points) = 2

\* a single edge whose margin overruns at the start only
C6_WitnessStartOverrun ==
  /\ ptPc = "done"
  /\ Len(ptIn.edges) = 1
  /\ overStart /\ ~overEnd
  /\ Len(points) = 1

\* the scaled path margin, and the scaled radius of a node as the call sees it
PathMargin == ptIn.margin * ptIn.scale
PathNodeRadius(n) == GetNodeRadius(PtNodeShape(ptIn, n)) * ptIn.scale

\* the node the traversal starts from and the node it ends at
PathFirstNode == ptEdgePos[1].source
PathLastNode == ptEdgePos[Len(ptEdgePos)].target

\* the offset of the start point and of the end point from the node centre
StartOffset ==
  PathMargin + (IF ptIn.end = "edgeOfNode" THEN PathNodeRadius(PathFirstNode) ELSE 0)
EndOffset ==
  PathMargin + (IF ptIn.end = "edgeOfNode" THEN PathNodeRadius(PathLastNode) ELSE 0)

\* the square of the distance between the two ends of edge number i of the
\* path (the centres of its nodes; a displaced line is as long)
EdgeLengthSq(i) ==
  LET e  == ptIn.edges[i].edge
      dx == PtPositions[e.target].x - PtPositions[e.source].x
      dy == PtPositions[e.target].y - PtPositions[e.source].y
  IN  dx * dx + dy * dy

\* C19 (as stated): margin overrun at the start is flagged exactly when the
\* start offset (scaled margin, plus the scaled radius of the first node for
\* the end type edgeOfNode) meets or exceeds the distance between the ends
\* of the first edge; at the end likewise with the last edge.
C19_OverrunWhenOffsetCoversEdge ==
  (ptPc = "done" /\ Len(ptIn.edges) >= 1) =>
    /\ overStart <=> StartOffset * StartOffset >= EdgeLengthSq(1)
    /\ overEnd <=> EndOffset * EndOffset >= EdgeLengthSq(Len(ptIn.edges))

\* C19 (amended): margin overrun at the start is flagged exactly when the
\* path margin is positive and the start offset plus the scaled radius of
\* the node at the far end of the first edge meets or exceeds the distance
\* between the ends of the first edge; at the end likewise with the last
\* edge, the end offset and the radius of the node the last edge comes from.
C19_OverrunWhenOffsetAndFarNodeCoverEdge ==
  (ptPc = "done" /\ Len(ptIn.edges) >= 1) =>
    LET n  == Len(ptIn.edges)
        ts == StartOffset + PathNodeRadius(ptEdgePos[1].target)
        te == EndOffset + PathNodeRadius(ptEdgePos[n].source)
    IN  /\ overStart <=> (PathMargin > 0 /\ ts * ts >= EdgeLengthSq(1))
        /\ overEnd <=> (PathMargin > 0 /\ te * te >= EdgeLengthSq(n))

\* a path of two edges flagged at the start only, where the start offset
\* alone is shorter than the first edge and only the far node's radius makes
\* up the rest exactly
C19_Witness ==
  /\ ptPc = "done"
  /\ Len(ptIn.edges) = 2
  /\ overStart /\ ~overEnd
  /\ StartOffset * StartOffset < EdgeLengthSq(1)
  /\ (StartOffset + PathNodeRadius(ptEdgePos[1].target))
       * (StartOffset + PathNodeRadius(ptEdgePos[1].target)) = EdgeLengthSq(1)

\* a path flagged at the end only, its last edge traversed in reverse
C19_WitnessEnd ==
  /\ ptPc = "done"
  /\ Len(ptIn.edges) = 2
  /\ ~overStart /\ overEnd
  /\ ptIn.end = "edgeOfNode"
  /\ ptEdgePos[2].source = ptIn.edges[2].edge.target

\* a path with an end offset but no margin is never flagged
C19_WitnessNoMargin ==
  /\ ptPc = "done"
  /\ Len(ptIn.edges) >= 1
  /\ ptIn.margin = 0 /\ ptIn.end = "edgeOfNode"
  /\ ~overStart /\ ~overEnd

\* the step that trims the computed sequence and returns it
TrimStep == ptPc = "trim" /\ ptPc' = "done"

\* C20 (as stated): the trimming removes the start point when overrun is
\* flagged at the start and the end element when it is flagged at the end,
\* and adds, removes or changes no other element, so that the result begins
\* (ends) with the first (last) transit element.
C20_TrimmingRemovesOnlyTheEnds ==
  [][TrimStep =>
       points' = SubSeq(points, IF overStart THEN 2 ELSE 1,
                                IF overEnd THEN Len(points) - 1 ELSE Len(points))]_vars

\* C20 (amended): the trimming removes the start point when overrun is
\* flagged at the start; if the element that follows it is an array (a curve),
\* the first point of that array is put in front of it as a new start point.
\* Then, when overrun is flagged at the end, the last element is removed (the
\* end element, or for a path of one straight edge flagged at both ends
\* nothing is left; for one curved edge the new start point stays alone).
\* Every other element is kept as it is, in order.
C20_TrimmingPutsControlPointFirst ==
  [][TrimStep =>
       LET n    == Len(points)
           rest == SubSeq(points, IF overStart THEN 2 ELSE 1, n)
           lead == IF overStart /\ rest # <<>> /\ rest[1].arr
                   THEN <<PointElem(rest[1].v[1])>>
                   ELSE <<>>
           kept == lead \o rest
       IN  /\ points' = SubSeq(kept, 1, IF overEnd THEN Len(kept) - 1 ELSE Len(kept))
           /\ (overStart /\ Len(lead) = 0 /\ ~overEnd) => points' = Tail(points)
           /\ (~overStart /\ overEnd) => points' = SubSeq(points, 1, n - 1)
           /\ (~overStart /\ ~overEnd) => points' = points]_vars

\* a path of two edges flagged at the start, whose first transit element is
\* a curve: the result begins with the first control point of that curve,
\* followed by the curve itself
C20_Witness ==
  /\ ptPc = "done"
  /\ Len(ptIn.edges) = 2
  /\ overStart /\ ~overEnd
  /\ Len(points) >= 3
  /\ ~points[1].arr /\ points[2].arr
  /\ points[1].v[1] = points[2].v[1]
  /\ points[1].v[1].k = "control1"

\* a path of two straight edges flagged at the end: the result ends with the
\* last transit element
C20_WitnessEnd ==
  /\ ptPc = "done"
  /\ Len(ptIn.edges) = 2
  /\ ~overStart /\ overEnd
  /\ ptEdgePos[1].curve = Undefined /\ ptEdgePos[2].curve = Undefined
  /\ Len(points) >= 2
  /\ ~points[Len(points)].arr

C21_WitnessStraight ==
  /\ ptPc = "end"
  /\ Len(ptEdgePos) = 2
  /\ ptEdgePos[1].curve = Undefined /\ ptEdgePos[2].curve = Undefined
  /\ ~ptIn.curveInNode
  /\ Len(points) = 3
  /\ points[2] = [arr |-> FALSE, v |-> <<ptPos[1]>>]
  /\ points[3] = [arr |-> FALSE, v |-> <<ptPos[3]>>]

\* after the transit from a straight edge to a curved one without
\* curveInNode: the middle transit point alone
C21_WitnessStraightToCurve ==
  /\ ptPc = "end"
  /\ Len(ptEdgePos) = 2
  /\ ptEdgePos[1].curve = Undefined /\ ptEdgePos[2].curve # Undefined
  /\ ~ptIn.curveInNode
  /\ Len(points) = 2
  /\ points[2] = [arr |-> FALSE, v |-> <<ptPos[2]>>]

-----------------------------------------------------------------------------
\* Claims about the edge states

\* a run of the first effect of edge state e is queued
CalcQueued(e) ==
  InSeq(activeCbs, Job("calc", e)) \/ InSeq(pendingCbs, Job("calc", e))

\* no watcher or effect is waiting to run
Quiescent == activeCbs = <<>> /\ pendingCbs = <<>>

\* the `shift` of line 502 for edge e as the edges are now
ShiftOf(e) ==
  LET p == EdgeLayoutPoint(edgeMap, edgeKeys, e, StConfigs(Store).edge.gap)
  IN  p.groupWidth \div 2 - p.pointInGroup

\* the curve of edge state e agrees with the edge type, the shift and the
\* outcome of the last computation
CurveAgrees(e) ==
  /\ edgeType = "straight" => edgeStates[e].curve = Undefined
  /\ edgeStates[e].curve # Undefined =>
       /\ edgeType = "curve"
       /\ e \in DOMAIN edgeMap
       /\ ShiftOf(e) # 0
       /\ ~edgeStates[e].reversed

\* C3 (as stated): in every reachable state every edge state has no curve
\* when the edge type is straight, and has a curve only if the edge type is
\* curve, the shift of the edge in its group is not zero and the last
\* computation found no reversal of the ends.
C3_CurveAgreesAlways == \A e \in DOMAIN edgeStates : CurveAgrees(e)

\* the same, restricted to the states in which nothing waits to run: it fails
\* as well, a curve outlives a run of the effect that returned early
C3_CurveAgreesWhenQuiescent ==
  Quiescent => \A e \in DOMAIN edgeStates : CurveAgrees(e)

\* C3 (amended): an edge state whose last run of the first effect went to its
\* end, and for which no further run is queued, has no curve when the edge
\* type is straight, and has a curve only if the edge type is curve, the
\* shift of the edge in its group is not zero and that run found no reversal
\* of the ends.
C3_CurveAgreesAfterCompleteRun ==
  \A e \in DOMAIN edgeStates :
    (edgeStates[e].calcDeps = "full" /\ ~CalcQueued(e)) => CurveAgrees(e)

\* the first effect of an edge has just run to its end and left a curve
C3_Witness ==
  /\ lastOp.op = "calc"
  /\ lastOp.id \in DOMAIN edgeStates
  /\ edgeStates[lastOp.id].calcDeps = "full"
  /\ ~CalcQueued(lastOp.id)
  /\ edgeStates[lastOp.id].curve # Undefined

\* C4: after a recomputation of an edge state that went to its end, the
\* origin is the segment between the centres of the source and the target
\* node, not shifted, whatever the edge type and the offset in the group.
C4_OriginIsCentreSegment ==
  \A e \in DOMAIN edgeStates :
    (lastOp.op = "calc" /\ lastOp.id = e /\ edgeStates[e].calcDeps = "full") =>
      edgeStates[e].origin = PositionsToLinePosition(layouts[edgeMap[e].source],
                                                     layouts[edgeMap[e].target])

\* what does hold: a curve-type edge has the centre segment for origin, a
\* straight-type edge the segment shifted by its offset in the group
C4_OriginByEdgeType ==
  \A e \in DOMAIN edgeStates :
    (lastOp.op = "calc" /\ lastOp.id = e /\ edgeStates[e].calcDeps = "full") =>
      edgeStates[e].origin =
        IF edgeType = "curve"
        THEN PositionsToLinePosition(layouts[edgeMap[e].source], layouts[edgeMap[e].target])
        ELSE CalculateEdgeShiftedPosition(
               EdgeLayoutPoint(edgeMap, edgeKeys, e, StConfigs(Store).edge.gap),
               IsEdgeSummarized(edgeMap, edgeKeys, e, StConfigs(Store).edge.summarize),
               layouts[edgeMap[e].source], layouts[edgeMap[e].target], scale)

-----------------------------------------------------------------------------
\* Claims about the state layer and its inputs

\* (a step that leaves opCount alone is a step of the flush: a watcher or an
\* effect runs; the operations of the application and the reads count up)

\* C7 (as stated): no step of the state layer changes the nodes, the edges or
\* the node positions.
C7_InputsNeverMutated ==
  [][opCount' = opCount =>
       /\ nodes' = nodes /\ edgeMap' = edgeMap /\ edgeKeys' = edgeKeys
       /\ layouts' = layouts]_vars

\* the ids that left a reactive set in the step are not among `present`
OnlyDropped(before, after, present) ==
  /\ after \subseteq before
  /\ (before \ after) \cap present = {}

\* C7 (amended): no step of the state layer changes the nodes or the edges,
\* and none adds or changes a node position; the watcher of the node ids
\* deletes the position of a node that is no longer in nodes, and the
\* watchers of the node and edge ids drop the ids that are gone from the
\* selected and hovered sets.
C7_LayerOnlyDropsWhatWasRemoved ==
  [][opCount' = opCount =>
       /\ nodes' = nodes /\ edgeMap' = edgeMap /\ edgeKeys' = edgeKeys
       /\ \A n \in DOMAIN layouts' : n \in DOMAIN layouts /\ layouts'[n] = layouts[n]
       /\ \A n \in DOMAIN layouts \ DOMAIN layouts' :
            n \notin DOMAIN nodes /\ NextJob.w = "nodes"
       /\ OnlyDropped(selectedNodes, selectedNodes', DOMAIN nodes)
       /\ OnlyDropped(hoveredNodes, hoveredNodes', DOMAIN nodes)
       /\ OnlyDropped(selectedEdges, selectedEdges', DOMAIN edgeMap)
       /\ OnlyDropped(hoveredEdges, hoveredEdges', DOMAIN edgeMap)]_vars

\* the watcher of the node ids has run and an edge that was once computed has
\* lost the position of an end
C7_Witness ==
  /\ lastOp.op = "nodes"
  /\ \E e \in DOMAIN edgeStates \cap DOMAIN edgeMap :
       /\ edgeStates[e].computed
       /\ edgeMap[e].source \notin DOMAIN layouts

\* the marker handles the edge states hold
HeldMarkerIds ==
  {edgeStates[e].sourceMarkerId : e \in DOMAIN edgeStates}
    \cup {edgeStates[e].targetMarkerId : e \in DOMAIN edgeStates}

\* the number of times the edge states hold the handle id
MarkerRefs(id) ==
  Cardinality({e \in DOMAIN edgeStates : edgeStates[e].sourceMarkerId = id})
    + Cardinality({e \in DOMAIN edgeStates : edgeStates[e].targetMarkerId = id})

\* C8: the stopWatchHandle of an edge state record that exists has not been
\* called and both its effects are live; that of a deleted record was called
\* exactly once, while the edge was out of edges.value, and both effects were
\* stopped when the record was deleted; the marker registry holds exactly the
\* handles of the records that exist (those of the deleted ones were given
\* back); and once the watchers have run, the records are those of the
\* edges of edges.value.
C8_DisposedExactlyOnce ==
  /\ DOMAIN edgeStates \subseteq DOMAIN disposals
  /\ \A e \in DOMAIN disposals :
       IF e \in DOMAIN edgeStates
       THEN /\ disposals[e] = NotDisposed
            /\ edgeStates[e].calcActive /\ edgeStates[e].markerActive
       ELSE /\ disposals[e].calls = 1
            /\ ~disposals[e].inTopology
            /\ disposals[e].stopped
  /\ DOMAIN markers = HeldMarkerIds \ {Undefined}
  /\ \A id \in DOMAIN markers : markers[id] = MarkerRefs(id)
  /\ Quiescent => DOMAIN edgeStates = DOMAIN edgeMap

\* the watcher of the edge ids has deleted the record of a removed edge
C8_Witness ==
  /\ lastOp.op = "edges"
  /\ \E e \in DOMAIN disposals : e \notin DOMAIN edgeStates /\ e \notin DOMAIN edgeMap

\* an edge was removed and added again under its id before the watcher of the
\* edge ids ran: the record lives on
C8_WitnessReadded ==
  /\ lastOp.op = "addEdge"
  /\ lastOp.id \in DOMAIN edgeStates
  /\ InSeq(pendingCbs, Job("edges", ""))

\* what the first effect of edge e would find missing
InputsAbsent(e) ==
  \/ e \notin DOMAIN edgeMap
  \/ edgeMap[e].source \notin DOMAIN layouts
  \/ edgeMap[e].target \notin DOMAIN layouts
  \/ StaticShapeOf(Store, edgeMap[e].source) = Undefined
  \/ StaticShapeOf(Store, edgeMap[e].target) = Undefined

\* the four fields the first effect computes
Geometry(state) == <<state.origin, state.position, state.labelPosition, state.curve>>

\* C9: a run of the first effect of an edge state that finds the edge, the
\* position of an end or the shape of an end missing leaves origin, position,
\* labelPosition and curve as they were; a record whose effect never ran to
\* its end has the all-zero line for the three lines and no curve.
C9_AbsentInputsKeepGeometry ==
  /\ [](\A e \in DOMAIN edgeStates :
          ~edgeStates[e].computed =>
            Geometry(edgeStates[e]) = <<ZeroLine, ZeroLine, ZeroLine, Undefined>>)
  /\ [][(/\ opCount' = opCount
         /\ Running("calc")
         /\ NextJob.id \in DOMAIN edgeStates
         /\ InputsAbsent(NextJob.id)) =>
          /\ NextJob.id \in DOMAIN edgeStates'
          /\ Geometry(edgeStates'[NextJob.id]) = Geometry(edgeStates[NextJob.id])]_vars

\* the first effect of a computed edge has run and returned early, and the
\* geometry of the edge is still there
C9_Witness ==
  /\ lastOp.op = "calc"
  /\ lastOp.id \in DOMAIN edgeStates
  /\ edgeStates[lastOp.id].calcDeps # "full"
  /\ edgeStates[lastOp.id].computed
  /\ edgeStates[lastOp.id].origin # ZeroLine

\* a read of a computed of a node state whose node is gone gives the cached
\* value
C10_NodeReadsReturnCache ==
  (lastOp.op = "readNode" /\ ~lastOp.present) => (~lastOp.threw /\ lastOp.kept)

\* a read of a computed of an edge state whose edge is gone gives the cached
\* value
C10_EdgeReadsReturnCache ==
  (lastOp.op = "readEdge" /\ ~lastOp.present) => (~lastOp.threw /\ lastOp.kept)

\* C10: a read of a computed (shape, staticShape, label, labelText, draggable,
\* selectable of a node state; line, selectable of an edge state) of a record
\* whose entity is no longer in the topology does not evaluate the
\* configuration against the missing entity: it does not throw and it gives
\* the value the computed had before.
C10_RemovedEntityReadsReturnCache ==
  (lastOp.op \in {"readNode", "readEdge"} /\ ~lastOp.present) =>
    (~lastOp.threw /\ lastOp.kept)

-----------------------------------------------------------------------------
\* Claims about the order of the pipeline

\* the geometry the first effect of edge e would compute now: from the group
\* entry of e as the edges are now, the positions and shapes as they are now
FreshGeometry(e) ==
  Geometry(EdgeGeometry(edgeStates[e],
             layouts[edgeMap[e].source], layouts[edgeMap[e].target],
             StaticShapeOf(Store, edgeMap[e].source),
             StaticShapeOf(Store, edgeMap[e].target),
             EdgeLayoutPoint(edgeMap, edgeKeys, e, StConfigs(Store).edge.gap),
             IsEdgeSummarized(edgeMap, edgeKeys, e, StConfigs(Store).edge.summarize),
             scale,
             LineGetter(edgeMap[e], edgeStates[e].selected, edgeStates[e].hovered,
                        StConfigs(Store).edge),
             StConfigs(Store).edge, edgeStates[e].reversed))

\* the state of edge e has been computed from the topology as it is now
Resolved(e) ==
  /\ e \in DOMAIN edgeStates
  /\ edgeStates[e].computed
  /\ Geometry(edgeStates[e]) = FreshGeometry(e)

C11_WitnessAdded ==
  /\ lastOp.op = "edges"
  /\ edgeKeys = <<"e2", "e1">>
  /\ Resolved("e1")
  /\ CalcQueued("e2") /\ ~Resolved("e2")

-----------------------------------------------------------------------------
\* Claims about the selected and hovered flags

\* C24: after all watchers have flushed, every node state is selected
\* exactly when its id is in selectedNodes and hovered exactly when its id is
\* in hoveredNodes, and likewise every edge state against selectedEdges and
\* hoveredEdges, whatever the order of the operations.
C24_FlagsMatchSets ==
  Quiescent =>
    /\ \A n \in DOMAIN nodeStates :
         /\ nodeStates[n].selected <=> n \in selectedNodes
         /\ nodeStates[n].hovered <=> n \in hoveredNodes
    /\ \A e \in DOMAIN edgeStates :
         /\ edgeStates[e].selected <=> e \in selectedEdges
         /\ edgeStates[e].hovered <=> e \in hoveredEdges

\* what does hold: after the flush a flag that is set has its id in the set
C24_SetFlagsAreInSets ==
  Quiescent =>
    /\ \A n \in DOMAIN nodeStates :
         /\ nodeStates[n].selected => n \in selectedNodes
         /\ nodeStates[n].hovered => n \in hoveredNodes
    /\ \A e \in DOMAIN edgeStates :
         /\ edgeStates[e].selected => e \in selectedEdges
         /\ edgeStates[e].hovered => e \in hoveredEdges

\* the id was put in selectedNodes before the node was added: after the
\* flush the node has a state that is not selected
C24_FailingInput ==
  /\ Quiescent
  /\ opCount = 2
  /\ StPicked.node \in selectedNodes
  /\ StPicked.node \in DOMAIN nodes
  /\ StPicked.node \in DOMAIN nodeStates
  /\ ~nodeStates[StPicked.node].selected

-----------------------------------------------------------------------------
\* Claims about the keys of the state records

\* C25: once the watchers have flushed, the ids of the node states are the
\* ids of the nodes and the ids of the edge states are the ids of the edges,
\* after any additions and removals.  At every moment the records are those
\* of the ids the watchers of the ids have last seen, so the handler of a
\* removed edge finds the record of every id it takes for removed (the ids
\* it last saw that are gone).
C25_StateKeysFollowTopology ==
  /\ Quiescent => /\ DOMAIN nodeStates = DOMAIN nodes
                  /\ DOMAIN edgeStates = DOMAIN edgeMap
  /\ DOMAIN nodeStates = oldValues.nodes
  /\ DOMAIN edgeStates = oldValues.edges
  /\ (oldValues.edges \ DOMAIN edgeMap) \subseteq DOMAIN edgeStates

\* after two operations and the flush: an edge and a node were removed, and
\* the records left are those of the node and the edge that remain
C25_Witness ==
  /\ Quiescent
  /\ opCount = 2
  /\ DOMAIN edgeMap = {"e2"} /\ DOMAIN edgeStates = {"e2"}
  /\ DOMAIN nodes = {"B"} /\ DOMAIN nodeStates = {"B"}
  /\ "e1" \in DOMAIN disposals /\ disposals["e1"].calls = 1

\* an edge was added and removed again before the watcher of the edge ids
\* ran: the watcher finds nothing to remove and no record was made
C25_WitnessAddedAndRemoved ==
  /\ Quiescent
  /\ opCount = 2
  /\ lastOp.op = "edges"
  /\ DOMAIN edgeMap = {} /\ DOMAIN edgeStates = {}
  /\ DOMAIN disposals = {}

\* the step in which the watcher of the node ids / of the edge ids runs
NodesWatcherStep == Running("nodes") /\ opCount' = opCount
EdgesWatcherStep == Running("edges") /\ opCount' = opCount

\* C26: when the watcher of the node ids has handled the removal of a node,
\* its id is in neither selectedNodes nor hoveredNodes and it has no node
\* state; every other id is in the two sets as before, the node state of
\* every node that was there before and stays is as before, and no edge and
\* no edge state is removed or changed (also not those of the edges that end
\* at a removed node).  Likewise when the watcher of the edge ids has handled
\* the removal of an edge: its id is in neither selectedEdges nor
\* hoveredEdges and it has no edge state, every other id is in the two sets
\* as before, the edge state of every other edge that was there before is as
\* before, and nodes and node states are as before (an edge added in the
\* same run has its first effect read the shapes of its nodes, which fills
\* the caches of their node states and changes nothing else).
C26_RemovalTouchesOnlyTheRemoved ==
  [][/\ NodesWatcherStep =>
          LET removed == Flushing.oldValues.nodes \ DOMAIN nodes
          IN  /\ removed \cap (selectedNodes' \cup hoveredNodes') = {}
              /\ removed \cap DOMAIN nodeStates' = {}
              /\ selectedNodes' = selectedNodes \ removed
              /\ hoveredNodes' = hoveredNodes \ removed
              /\ \A n \in DOMAIN nodeStates \ removed :
                   n \in DOMAIN nodeStates' /\ nodeStates'[n] = nodeStates[n]
              /\ edgeMap' = edgeMap /\ edgeKeys' = edgeKeys
              /\ edgeStates' = edgeStates
              /\ selectedEdges' = selectedEdges /\ hoveredEdges' = hoveredEdges
     /\ EdgesWatcherStep =>
          LET removed == Flushing.oldValues.edges \ DOMAIN edgeMap
          IN  /\ removed \cap (selectedEdges' \cup hoveredEdges') = {}
              /\ removed \cap DOMAIN edgeStates' = {}
              /\ selectedEdges' = selectedEdges \ removed
              /\ hoveredEdges' = hoveredEdges \ removed
              /\ \A e \in DOMAIN edgeStates \ removed :
                   e \in DOMAIN edgeStates' /\ edgeStates'[e] = edgeStates[e]
              /\ nodes' = nodes /\ DOMAIN nodeStates' = DOMAIN nodeStates
              /\ \A n \in DOMAIN nodeStates :
                   /\ nodeStates'[n].selected = nodeStates[n].selected
                   /\ nodeStates'[n].hovered = nodeStates[n].hovered
              /\ DOMAIN edgeMap \subseteq Flushing.oldValues.edges => nodeStates' = nodeStates
              /\ selectedNodes' = selectedNodes /\ hoveredNodes' = hoveredNodes]_vars

\* the watcher of the node ids has handled the removal of node A, which was
\* selected: A is out of selectedNodes and has no state, and edge e1, which
\* starts at A, still has its record
C26_Witness ==
  /\ lastOp.op = "nodes"
  /\ "A" \notin DOMAIN nodes /\ "A" \notin DOMAIN nodeStates
  /\ "A" \in oldValues.selectedNodes /\ "A" \notin selectedNodes
  /\ "e1" \in DOMAIN edgeMap /\ "e1" \in DOMAIN edgeStates
  /\ edgeStates["e1"].computed

\* the watcher of the edge ids has handled the removal of edge e1, which was
\* hovered, and the record of e2 is there
C26_WitnessEdge ==
  /\ lastOp.op = "edges"
  /\ "e1" \notin DOMAIN edgeMap /\ "e1" \notin DOMAIN edgeStates
  /\ "e1" \in oldValues.hoveredEdges /\ "e1" \notin hoveredEdges
  /\ "e2" \in DOMAIN edgeStates

-----------------------------------------------------------------------------
\* Claims about hovering

\* the marker styles of the configuration are literals
MarkersAreLiterals ==
  \A end \in {"source", "target"} :
    \A k \in DOMAIN StConfigs(Store).edge.marker[end] :
      ~StConfigs(Store).edge.marker[end][k].fn

\* the shape of node n with the hovered flag off
UnhoveredShape(n) ==
  GetNodeShape(nodes[n], nodeStates[n].selected, FALSE, StConfigs(Store).node)

\* the geometry of edge e computed with the hovered flags of the edge and of
\* its two nodes off, and with the outcome of the reversal test the record has
UnhoveredGeometry(e) ==
  Geometry(EdgeGeometry(edgeStates[e],
             layouts[edgeMap[e].source], layouts[edgeMap[e].target],
             UnhoveredShape(edgeMap[e].source), UnhoveredShape(edgeMap[e].target),
             EdgeLayoutPoint(edgeMap, edgeKeys, e, StConfigs(Store).edge.gap),
             IsEdgeSummarized(edgeMap, edgeKeys, e, StConfigs(Store).edge.summarize),
             scale,
             LineGetter(edgeMap[e], edgeStates[e].selected, FALSE, StConfigs(Store).edge),
             StConfigs(Store).edge, edgeStates[e].reversed))

\* edge e and its two nodes are in the topology and have their records
EdgeAndEndsPresent(e) ==
  /\ e \in DOMAIN edgeMap /\ e \in DOMAIN edgeStates
  /\ \A n \in {edgeMap[e].source, edgeMap[e].target} :
        n \in DOMAIN nodes /\ n \in DOMAIN nodeStates /\ n \in DOMAIN layouts

\* C27: with literal marker styles, the hovered flags of the nodes and of the
\* edges have no part in the origin, position, labelPosition and curve of an
\* edge: once the watchers and effects have run, the four fields are what
\* they would be with the hovered flags of the edge and of its two nodes off
\* (the static shape of the nodes, the normal stroke width of the edge); and
\* the watchers of the hovered sets, which set the flags, leave the four
\* fields of every edge as they are.
C27_HoverLeavesGeometry ==
  /\ [](Quiescent /\ MarkersAreLiterals =>
          \A e \in DOMAIN edgeStates :
            EdgeAndEndsPresent(e) /\ edgeStates[e].computed =>
              Geometry(edgeStates[e]) = UnhoveredGeometry(e))
  /\ [][(opCount' = opCount /\ (Running("hoveredNodes") \/ Running("hoveredEdges"))) =>
          /\ DOMAIN edgeStates' = DOMAIN edgeStates
          /\ \A e \in DOMAIN edgeStates :
                Geometry(edgeStates'[e]) = Geometry(edgeStates[e])]_vars

\* edge e1 is hovered and has a marker, its geometry is computed, and nothing
\* is waiting to run
C27_Witness ==
  /\ Quiescent
  /\ EdgeAndEndsPresent("e1")
  /\ edgeStates["e1"].computed
  /\ edgeStates["e1"].hovered /\ ~edgeStates["e1"].selected
  /\ edgeStates["e1"].line # Undefined
  /\ edgeStates["e1"].line.stroke.width # edgeStates["e1"].line.normalWidth
  /\ edgeStates["e1"].line.target.type # "none"

\* node A, an end of the computed edge e1, is hovered, and nothing is waiting
\* to run
C27_WitnessNode ==
  /\ Quiescent
  /\ EdgeAndEndsPresent("e1")
  /\ edgeStates["e1"].computed
  /\ "A" \in {edgeMap["e1"].source, edgeMap["e1"].target}
  /\ nodeStates["A"].hovered /\ ~nodeStates["A"].selected

-----------------------------------------------------------------------------
\* Claims about the geometry of one edge

\* the `shift` of line 502
GeoShift == GeoLayoutPoint(geoIn).groupWidth \div 2 - GeoLayoutPoint(geoIn).pointInGroup

\* the effect has run under both edge types on the same inputs
GeoBothSeen == geoSeen.straight # Undefined /\ geoSeen.curve # Undefined

C12_AgreeOnCentreLine ==
  (GeoBothSeen /\ GeoShift = 0 /\ GeoLayoutPoint(geoIn).pointInGroup = 0) =>
    geoSeen.curve = geoSeen.straight

\* the effect has run under both types for the last edge of a group of two
C12_FailingInput ==
  /\ GeoBothSeen /\ GeoShift = 0
  /\ geoIn.size = 2 /\ geoIn.slot = 2 /\ ~geoIn.summarized

\* the effect has just run for a straight edge without markers
GeoStraightNoMarkers ==
  /\ geoPc = "clean" /\ geoType = "straight"
  /\ geoIn.sourceMarker = "none" /\ geoIn.targetMarker = "none"

\* C13 (as stated): a straight edge with the edge margin 0 and no markers has
\* position = origin.
C13_ZeroMarginPositionIsOrigin ==
  (GeoStraightNoMarkers /\ geoIn.margin = Num(0)) => geoState.position = geoState.origin

\* C13 (amended): a straight edge without markers has position = origin when
\* the edge margin is null; when it is a number, 0 included, the ends of
\* position are those of origin moved inwards by that number plus the
\* distance from the centre of the node to its outline, times the scale.
C13_NullMarginPositionIsOrigin ==
  GeoStraightNoMarkers =>
    IF geoIn.margin \in {Null, Undefined}
    THEN geoState.position = geoState.origin
    ELSE /\ geoState.position # geoState.origin
         /\ geoState.position =
              ApplyMarginToLine(geoState.origin,
                (geoIn.margin.v + ShapeMargin(geoIn.sourceShape, [x |-> 0, y |-> 0], geoIn.target)) * geoIn.s,
                (geoIn.margin.v + ShapeMargin(geoIn.targetShape, geoIn.target, [x |-> 0, y |-> 0])) * geoIn.s)

\* a straight edge without markers and with a null margin, displaced in its
\* group, between a rectangle and a circle, at scale 2
C13_Witness ==
  /\ GeoStraightNoMarkers /\ geoIn.margin = Null
  /\ geoIn.size = 2 /\ geoIn.slot = 1 /\ geoIn.s = 2
  /\ geoIn.sourceShape.type = "rect" /\ geoIn.targetShape.type = "circle"
  /\ geoState.origin # ZeroLine

\* C22: the curve computation never calls the circle routine with three
\* points on one line: with shift 0 it takes the straight-line shortcut
\* without computing the circle, which is computed only when the shift is
\* not zero.
C22_NoCollinearCircumcircle ==
  (geoPc = "clean" /\ geoType = "curve") =>
    /\ \A i \in 1..Len(geoCircle) : ~Collinear(geoCircle[i])
    /\ GeoShift = 0 => geoCircle = <<>>

\* what does hold: with shift 0 the circle is computed and not used (the
\* position is a straight line and there is no curve descriptor)
C22_CircleUnusedAtZeroShift ==
  (geoPc = "clean" /\ geoType = "curve" /\ GeoShift = 0) =>
    /\ Len(geoCircle) = 1
    /\ geoState.curve = Undefined
    /\ geoState.position.form = "line"

\* a curve-type edge alone in its group: the routine has been called with
\* the two ends of the origin and its midpoint
C22_FailingInput ==
  /\ geoPc = "clean" /\ geoType = "curve"
  /\ geoIn.size = 1
  /\ GeoShift = 0
  /\ Len(geoCircle) = 1 /\ Collinear(geoCircle[1])

\* both margins of the edge are zero: no margin is configured and neither
\* end has a marker (479-487)
GeoNoMargins ==
  geoIn.margin \in {Null, Undefined} /\ geoIn.sourceMarker = "none" /\ geoIn.targetMarker = "none"

\* the record of a curve-type edge with a shift after a run of the effect
GeoCurveWithShift == geoPc = "clean" /\ geoType = "curve" /\ GeoShift # 0

\* position is a short line on the shifted line
GeoStubOnShiftedLine ==
  /\ geoState.position.form = "stub"
  /\ geoState.position.src = [x |-> 0, y |-> 0]
  /\ geoState.position.tgt = geoIn.target
  /\ geoState.position.off = (IF geoIn.summarized THEN 0
                              ELSE GeoLayoutPoint(geoIn).pointInGroup * geoIn.s)

\* C23 (as stated): for a curve-type edge with a shift, when the margins
\* reverse the order of the two ends around the circle, the record has no
\* curve descriptor and position is a short line with the centre of the
\* shifted line for its middle, reaching 0.5 to either side; when both
\* margins are zero the descriptor is always there.
C23_ReversedCurveIsCentredStub ==
  GeoCurveWithShift =>
    IF GeoNoMargins THEN geoState.curve # Undefined
    ELSE geoIn.reversed =>
           /\ geoState.curve = Undefined
           /\ GeoStubOnShiftedLine
           /\ geoState.position.from2 = -1 /\ geoState.position.to2 = 1

\* C23 (amended): for a curve-type edge with a shift, when the margins
\* reverse the order of the two ends around the circle, the record has no
\* curve descriptor and position is a short line that starts at the centre
\* of the shifted line and ends 0.5 further along the direction of the
\* shifted line; when the margins do not reverse it, or when both margins
\* are zero (the comparison is not made then, and position is the origin),
\* the descriptor is there.
C23_ReversedCurveIsStubFromCentre ==
  GeoCurveWithShift =>
    IF GeoNoMargins
    THEN /\ geoState.curve # Undefined
         /\ geoState.position = geoState.origin
         /\ ~geoState.reversed
    ELSE IF geoIn.reversed
    THEN /\ geoState.curve = Undefined
         /\ GeoStubOnShiftedLine
         /\ geoState.position.from2 = 0 /\ geoState.position.to2 = 1
    ELSE /\ geoState.curve # Undefined
         /\ geoState.position.form = "arc"

\* an edge at the side of a group of three, drawn with a marker, whose
\* margins reverse the ends: the short line lies on its shifted line
C23_Witness ==
  /\ GeoCurveWithShift
  /\ geoIn.size = 3 /\ ~geoIn.summarized
  /\ geoIn.targetMarker = "arrow"
  /\ geoIn.reversed
  /\ geoState.curve = Undefined
  /\ geoState.position.form = "stub"
  /\ geoState.position.off # 0

\* an edge with a shift and no margins, for which the comparison would
\* come out reversed: the descriptor is there
C23_WitnessNoMargins ==
  /\ GeoCurveWithShift
  /\ GeoNoMargins
  /\ geoIn.reversed
  /\ geoState.curve # Undefined

\* the marker part of the margin of an end with the marker type `type` and
\* the marker units `units`
GeoMarkerPart(type, units) ==
  IF type = "none" THEN 0
  ELSE IF units = "strokeWidth"
  THEN (Marker(type).margin.v + Marker(type).width.v) * GeoConfig(geoIn, geoType).normal.width.v
  ELSE Marker(type).margin.v + Marker(type).width.v

\* the distances from the centres of the two nodes to their outlines
GeoSourceShapeMargin == ShapeMargin(geoIn.sourceShape, [x |-> 0, y |-> 0], geoIn.target)

GeoTargetShapeMargin == ShapeMargin(geoIn.targetShape, geoIn.target, [x |-> 0, y |-> 0])

\* at least one end of the edge has a marker
GeoAnyMarker == geoIn.sourceMarker # "none" \/ geoIn.targetMarker # "none"

\* the margin of the source end as C28 gives it
GeoSourceMargin ==
  IF geoIn.margin \in {Null, Undefined}
  THEN IF GeoAnyMarker
       THEN GeoMarkerPart(geoIn.sourceMarker, geoIn.sourceUnits) + GeoSourceShapeMargin
       ELSE 0
  ELSE GeoMarkerPart(geoIn.sourceMarker, geoIn.sourceUnits) + geoIn.margin.v
         + GeoSourceShapeMargin

\* the margin of the target end as C28 gives it
GeoTargetMargin ==
  IF geoIn.margin \in {Null, Undefined}
  THEN IF GeoAnyMarker
       THEN GeoMarkerPart(geoIn.targetMarker, geoIn.targetUnits) + GeoTargetShapeMargin
       ELSE 0
  ELSE GeoMarkerPart(geoIn.targetMarker, geoIn.targetUnits) + geoIn.margin.v
         + GeoTargetShapeMargin

\* C28: the margin of an end is its marker part, which is 0 when the marker
\* type of the end is none and otherwise marker.margin + marker.width, times
\* the normal stroke width when the marker units are strokeWidth; plus, when
\* the edge margin is null or undefined, the shape margin of the end if at
\* least one end has a marker (both margins are 0 if neither has); plus, when
\* the edge margin is a number m, m and the shape margin of the end.  The
\* ends of the position the effect leaves are moved inwards by these margins
\* times the scale; the stub of a reversed curve, which keeps no margins, is
\* only there when a margin is not zero.
C28_EndpointMargins ==
  geoPc = "clean" =>
    IF geoState.position.form = "stub"
    THEN GeoSourceMargin # 0 \/ GeoTargetMargin # 0
    ELSE /\ geoState.position.m1 = GeoSourceMargin * geoIn.s
         /\ geoState.position.m2 = GeoTargetMargin * geoIn.s

\* no margin is configured and only the target end has a marker, in
\* strokeWidth units: the source end is moved inwards by its shape margin
C28_Witness ==
  /\ geoPc = "clean" /\ geoType = "straight"
  /\ geoIn.margin = Null
  /\ geoIn.sourceMarker = "none" /\ geoIn.targetMarker = "arrow"
  /\ geoIn.targetUnits = "strokeWidth"
  /\ geoIn.s = 2
  /\ geoState.position.m1 = GeoSourceShapeMargin * 2
  /\ geoState.position.m2 = (6 + GeoTargetShapeMargin) * 2

\* the margin 0 is configured and the source end has a marker in
\* userSpaceOnUse units, on a curve
C28_WitnessNumber ==
  /\ geoPc = "clean" /\ geoType = "curve"
  /\ geoIn.margin = Num(0)
  /\ geoIn.sourceMarker = "arrow" /\ geoIn.targetMarker = "none"
  /\ geoIn.sourceUnits = "userSpaceOnUse"
  /\ geoState.position.form = "arc"
  /\ geoState.position.m1 = (3 + GeoSourceShapeMargin) * geoIn.s
  /\ geoState.position.m2 = GeoTargetShapeMargin * geoIn.s

\* the margin is undefined and neither end has a marker: no end is moved
C28_WitnessUndefined ==
  /\ geoPc = "clean" /\ geoType = "straight"
  /\ geoIn.margin = Undefined
  /\ ~GeoAnyMarker
  /\ geoState.position = geoState.origin
  /\ geoState.origin # ZeroLine

-----------------------------------------------------------------------------
\* Claims about the summarized edge states

\* the ids of the groups that exist and are summarized
SummarizedGroups ==
  {g \in DOMAIN EdgeGroups(sumEdges, sumMin) : EdgeGroups(sumEdges, sumMin)[g].summarize}

\* C14: once the watcher of the edge groups has run (at once in
\* provideStates, and after every change of the edge groups),
\* summarizedEdgeStates has an entry for exactly the groups that exist and
\* are summarized, and the entry of a group that had one before the run is
\* the record it was.
C14_SummarizedStatesFollowGroups ==
  ~sumPending =>
    /\ DOMAIN summarizedEdgeStates = SummarizedGroups
    /\ \A g \in DOMAIN summarizedEdgeStates \cap DOMAIN sumPrev :
         summarizedEdgeStates[g] = sumPrev[g]

\* a run of the watcher has kept the entry of one group, made one for
\* another group and deleted that of a third
C14_Witness ==
  /\ ~sumPending /\ sumRuns >= 2
  /\ \E g \in DOMAIN summarizedEdgeStates \cap DOMAIN sumPrev :
       summarizedEdgeStates[g].born < sumRuns - 1
  /\ \E g \in DOMAIN summarizedEdgeStates : g \notin DOMAIN sumPrev
  /\ \E g \in DOMAIN sumPrev : g \notin DOMAIN summarizedEdgeStates

-----------------------------------------------------------------------------
\* Claims about the transit points

TrDone == trPc = "done"

\* three times the core radius and the node radius of the node
TrCore3 == NodeCoreRadius3(TrNodeRadius(trIn), trIn.s)
TrNode3 == 3 * TrNodeRadius(trIn)

\* the three tiers as the claims name them
Tier1 == trIn.hasCross /\ trIn.d3 < TrCore3
Tier2 == trIn.hasCross /\ TrCore3 <= trIn.d3 /\ trIn.d3 <= TrNode3
Tier3 == ~trIn.hasCross \/ trIn.d3 > TrNode3

\* the crossing of the incoming (outgoing) line that lies nearer to [X] when
\* the line crosses both circles
NearerPrev == IF trIn.nearP THEN Pt("prevCoreIp", 2) ELSE Pt("prevNodeIp", 2)
NearerNext == IF trIn.nearN THEN Pt("nextCoreIp", 2) ELSE Pt("nextNodeIp", 2)

\* C15: the middle point of the transit triple is the intersection [X]
\* exactly when [X] exists and d <= nodeRadius, and the node centre exactly
\* when [X] does not exist or d > nodeRadius; exactly one of the tiers
\* d < coreRadius, coreRadius <= d <= nodeRadius, d > nodeRadius or no
\* intersection applies, and the outer points follow the tier: in tier 1 the
\* first of core crossing, node crossing, line end that exists; in tier 2
\* the nearer of the two crossings of a line that has both.
C15_MiddlePointByTier ==
  TrDone =>
    /\ (trPos[2] = Pt("crossPoint", 2)) <=> (trIn.hasCross /\ trIn.d3 <= TrNode3)
    /\ (trPos[2] = Pt("nodePos", 2)) <=> (~trIn.hasCross \/ trIn.d3 > TrNode3)
    /\ (Tier1 \/ Tier2 \/ Tier3)
    /\ ~(Tier1 /\ Tier2) /\ ~(Tier1 /\ Tier3) /\ ~(Tier2 /\ Tier3)
    /\ Tier1 =>
         /\ trPos[1] = FindFirstNonNull(trIn.pc, Pt("prevCoreIp", 2),
                                        trIn.pn, Pt("prevNodeIp", 2), Pt("lineTarget", 1))
         /\ trPos[3] = FindFirstNonNull(trIn.nc, Pt("nextCoreIp", 2),
                                        trIn.nn, Pt("nextNodeIp", 2), Pt("lineSource", 2))
    /\ (Tier2 /\ trIn.pc /\ trIn.pn) => trPos[1] = NearerPrev
    /\ (Tier2 /\ trIn.nc /\ trIn.nn) => trPos[3] = NearerNext

\* [X] lies on the circle of the node, whose core radius is the radius less
\* the fixed margin; both lines cross both circles, the node circle nearer
C15_Witness ==
  /\ TrDone /\ trIn.hasCross /\ trIn.d3 = TrNode3
  /\ trIn.radius = 15 /\ trIn.s = 1 /\ TrCore3 = 33
  /\ trIn.pc /\ trIn.pn /\ trIn.nc /\ trIn.nn /\ ~trIn.nearP /\ ~trIn.nearN
  /\ trPos = <<Pt("prevNodeIp", 2), Pt("crossPoint", 2), Pt("nextNodeIp", 2)>>

\* [X] lies on the core circle: tier 2
C15_WitnessCoreBoundary ==
  /\ TrDone /\ trIn.hasCross /\ trIn.d3 = TrCore3
  /\ trIn.pc /\ trIn.pn /\ ~trIn.nearP
  /\ trPos[1] = Pt("prevNodeIp", 2)

\* C16: in tier 2, for each of the two lines, the transit point is a
\* crossing of the line with the core circle or the node circle whenever
\* the line has one, the nearer to [X] when it has both, and the end of the
\* line only when it has none.
C16_Tier2UsesACrossing ==
  (TrDone /\ Tier2) =>
    /\ (trIn.pc /\ trIn.pn) => trPos[1] = NearerPrev
    /\ (trIn.pc /\ ~trIn.pn) => trPos[1] = Pt("prevCoreIp", 2)
    /\ (~trIn.pc /\ trIn.pn) => trPos[1] = Pt("prevNodeIp", 2)
    /\ trPos[1] = Pt("lineTarget", 1) => (~trIn.pc /\ ~trIn.pn)
    /\ (trIn.nc /\ trIn.nn) => trPos[3] = NearerNext
    /\ (trIn.nc /\ ~trIn.nn) => trPos[3] = Pt("nextCoreIp", 2)
    /\ (~trIn.nc /\ trIn.nn) => trPos[3] = Pt("nextNodeIp", 2)
    /\ trPos[3] = Pt("lineSource", 2) => (~trIn.nn /\ ~trIn.nc)

\* what does hold in tier 2: a line that does not cross the node circle gets
\* its end for transit point, whether it crosses the core circle or not
C16_Tier2ByNodeCrossing ==
  (TrDone /\ Tier2) =>
    /\ trPos[1] = IF trIn.pn /\ trIn.pc THEN NearerPrev
                  ELSE IF trIn.pn THEN Pt("prevNodeIp", 2) ELSE Pt("lineTarget", 1)
    /\ trPos[3] = IF trIn.nn /\ trIn.nc THEN NearerNext
                  ELSE IF trIn.nn THEN Pt("nextNodeIp", 2) ELSE Pt("lineSource", 2)

\* tier 2 with an incoming line that crosses the core circle only
C16_FailingInput ==
  /\ TrDone /\ Tier2 /\ trIn.pc /\ ~trIn.pn
  /\ trPos[1] = Pt("lineTarget", 1)

\* the outer points the claim gives for tier 3
Tier3Outer ==
  IF trIn.pc /\ trIn.nc THEN <<Pt("prevCoreIp", 2), Pt("nextCoreIp", 2)>>
  ELSE IF trIn.pn /\ trIn.nn THEN <<Pt("prevNodeIp", 2), Pt("nextNodeIp", 2)>>
  ELSE <<Pt("lineTarget", 1), Pt("lineSource", 2)>>

\* C17 (as stated): in tier 3 the transit points are the core crossings of
\* both lines if both have one, else the node crossings of both if both have
\* one, else the ends of the lines, whether [X] exists or not.
C17_Tier3SameRule ==
  (TrDone /\ Tier3) => <<trPos[1], trPos[3]>> = Tier3Outer

\* C17 (amended): in tier 3 the middle point is the node centre and the
\* transit points are the core crossings of both lines if both have one,
\* else the node crossings of both if both have one; else, when the lines
\* have no intersection, the ends of the lines, and when the intersection
\* lies outside the node, for each line the first that exists of its core
\* crossing, its node crossing and its end.
C17_Tier3ByIntersection ==
  (TrDone /\ Tier3) =>
    /\ trPos[2] = Pt("nodePos", 2)
    /\ <<trPos[1], trPos[3]>> =
         IF (trIn.pc /\ trIn.nc) \/ (trIn.pn /\ trIn.nn) \/ ~trIn.hasCross
         THEN Tier3Outer
         ELSE <<FindFirstNonNull(trIn.pc, Pt("prevCoreIp", 2),
                                 trIn.pn, Pt("prevNodeIp", 2), Pt("lineTarget", 1)),
                FindFirstNonNull(trIn.nc, Pt("nextCoreIp", 2),
                                 trIn.nn, Pt("nextNodeIp", 2), Pt("lineSource", 2))>>

\* the intersection lies outside the node; the incoming line crosses both
\* circles, the outgoing line none
C17_Witness ==
  /\ TrDone /\ trIn.hasCross /\ trIn.d3 > TrNode3
  /\ trIn.pc /\ trIn.pn /\ ~trIn.nc /\ ~trIn.nn
  /\ trPos = <<Pt("prevCoreIp", 2), Pt("nodePos", 2), Pt("lineSource", 2)>>

-----------------------------------------------------------------------------
\* Specifications

InitSpecPaths == InitPaths /\ IdleDir /\ IdlePts /\ IdleSt /\ IdleGeo /\ IdleSum /\ IdleTr
InitSpecDir   == InitDir /\ IdlePaths /\ IdlePts /\ IdleSt /\ IdleGeo /\ IdleSum /\ IdleTr
InitSpecPts   == InitPts /\ IdlePaths /\ IdleDir /\ IdleSt /\ IdleGeo /\ IdleSum /\ IdleTr
InitSpecSt    == InitSt /\ IdlePaths /\ IdleDir /\ IdlePts /\ IdleGeo /\ IdleSum /\ IdleTr
InitSpecGeo   == InitGeo /\ IdlePaths /\ IdleDir /\ IdlePts /\ IdleSt /\ IdleSum /\ IdleTr
InitSpecSum   == InitSum /\ IdlePaths /\ IdleDir /\ IdlePts /\ IdleSt /\ IdleGeo /\ IdleTr
InitSpecTr    == InitTr /\ IdlePaths /\ IdleDir /\ IdlePts /\ IdleSt /\ IdleGeo /\ IdleSum

SpecPaths == InitSpecPaths /\ [][NextPaths]_vars
SpecDir   == InitSpecDir /\ [][NextDir]_vars
SpecPts   == InitSpecPts /\ [][NextPts]_vars
SpecSt    == InitSpecSt /\ [][NextSt]_vars
SpecGeo   == InitSpecGeo /\ [][NextGeo]_vars
SpecSum   == InitSpecSum /\ [][NextSum]_vars
SpecTr    == InitSpecTr /\ [][NextTr]_vars

=============================================================================
